---- MODULE Spec2Model ----
(***************************************************************************)
(* A model of the PICO7SEG clock: the SevenSegmentDisplay buffer, the      *)
(* Scroller and the ClockApp state machine with its REST control server    *)
(* (main_mem32.py), and the single-file script variant                     *)
(* (main_mem32_simple.py).                                                 *)
(*                                                                         *)
(* Texts are sequences of one-character strings.  Temperatures are         *)
(* integers in hundredths of a degree Celsius.  An optional argument       *)
(* (Python None) is the empty sequence, a supplied one is a one-element    *)
(* sequence.                                                               *)
(*                                                                         *)
(* Times are milliseconds of utime.ticks_ms(), held relative to the        *)
(* current reading: the current reading is always 0 (now), a timestamp     *)
(* recorded dt ms ago holds -dt, an expiry d ms ahead holds d.  When the   *)
(* clock advances by dt every recorded time moves back by dt (Elapse).     *)
(* ticks_zero is where the tick value 0 of boot lies.  A recorded time is  *)
(* told apart only as far back as the longest interval the program (or a   *)
(* property) compares it with: beyond that it is held at that interval     *)
(* plus one (SCROLL_BACK, ...), which every comparison answers alike.      *)
(***************************************************************************)
EXTENDS Integers, Sequences, FiniteSets, TLC

VARIABLES
    \* SevenSegmentDisplay
    display_data, colon_on, degree_on,
    gpio,               \* the GPIO output register: the pins driven high
    refresh_i,          \* refresh(): the slot i of the loop
    refresh_k,          \* refresh(): the register writes done for slot i
    last_write,         \* the last write to GPIO_OUT_SET or GPIO_OUT_CLR
    pass_writes,        \* the register writes of the refresh() pass under way
    prev_writes,        \* those of the last whole pass, while the buffer is
                        \* as that pass found it (<<>> otherwise)
    n_passes,           \* whole passes since the buffer last changed, up to 2
    \* RestApiServer.poll, as seen from the network
    request,            \* the request the last poll read, if it accepted one
    responses,          \* the responses the last poll sent on its connection
    conn,               \* that connection: "none", "open" or "closed"
    \* Scroller
    message, index, is_active, loop, last_scroll_time_ms,
    \* ClockApp
    state, next_state_after_scroll, last_data_update_ms, last_mode_switch_ms,
    time_temp_mode, colon_blink_state, api_mode_end_ms, button_state,
    last_manual_action_ms, manual_mode_index, ip_address,
    \* RestApiServer
    is_listening,
    \* the script variant (main_mem32_simple.py, lines 60-63)
    script_state, disp_buf, wlan, script_ip, scroll_msg, scroll_idx,
    last_scroll_ms, last_data_ms, script_colon, script_degree, tt_mode,
    last_mode_sw_ms, btn_state, last_manual_ms, manual_idx,
    \* environment and observation
    ticks_zero,         \* the tick value 0, relative to the current reading
    pc,                 \* position in the main loop, or "driver"
    n_presses,          \* honored button presses so far
    n_requests,         \* requests handled by poll so far
    n_ops,              \* operations applied by the driver so far
    in_text,            \* the text the driver's operations are applied to
    in_temp,            \* the temperature they are applied to under SpecTemp
    last_event,         \* what the last step did
    last_text,          \* the text argument of the last show_text call
    n_advances,         \* frames Scroller.update rendered since the last start
    elapsed_ms,         \* at the last driver update: ms since the last advance
    app_write_while_scrolling  \* the last step wrote the buffer from outside
                               \* the Scroller while Scroller.is_active

dispVars == <<display_data, colon_on, degree_on, last_text>>
hwVars   == <<gpio, refresh_i, refresh_k, last_write, pass_writes, prev_writes,
              n_passes>>
reqVars  == <<request, responses, conn>>
scrVars  == <<message, index, is_active, loop, last_scroll_time_ms>>
appVars  == <<state, next_state_after_scroll, last_data_update_ms,
              last_mode_switch_ms, time_temp_mode, colon_blink_state,
              api_mode_end_ms, button_state, last_manual_action_ms,
              manual_mode_index, ip_address, is_listening>>
envVars  == <<ticks_zero, pc, n_presses, n_requests, n_ops, in_text, in_temp, last_event,
              app_write_while_scrolling, n_advances, elapsed_ms>>
scriptVars == <<script_state, disp_buf, wlan, script_ip, scroll_msg, scroll_idx,
                last_scroll_ms, last_data_ms, script_colon, script_degree,
                tt_mode, last_mode_sw_ms, btn_state, last_manual_ms, manual_idx>>
vars     == <<dispVars, hwVars, reqVars, scrVars, appVars, scriptVars,
              envVars>>

----------------------------------------------------------------------------
(* Configuration (main_mem32.py, section 1) *)

SCROLL_DELAY_MS == 350
MANUAL_MODE_TIMEOUT_S == 15

STARTUP_MESSAGE == <<"H","E","L","L","O"," ","P","I","C","O">>
WIFI_FAIL_MESSAGE == <<"W","I","F","I"," ","F","A","I","L","E","D">>
NO_IP == <<"N","O"," ","I","P">>

None == <<>>
Some(v) == <<v>>

----------------------------------------------------------------------------
(* utime.ticks_add / utime.ticks_diff: arithmetic modulo the ticks period *)

TICKS_PERIOD == 2^30

\* utime.ticks_ms(): the current reading
now == 0

\* how far back each recorded time is told apart
SCROLL_BACK == SCROLL_DELAY_MS + 1
DATA_BACK == 1000 + 1
MODE_BACK == 10 * 1000 + 1
MANUAL_BACK == MANUAL_MODE_TIMEOUT_S * 1000 + 1
EXPIRY_BACK == 0 + 1

\* a recorded time after the clock has advanced by dt
shift(t, dt, back) == IF t - dt < -back THEN -back ELSE t - dt

ticks_add(t, delta) == (t + delta) % TICKS_PERIOD

ticks_diff(a, b) ==
    ((a - b + (TICKS_PERIOD \div 2)) % TICKS_PERIOD) - (TICKS_PERIOD \div 2)

----------------------------------------------------------------------------
(* SevenSegmentDisplay *)

Segments == {"a", "b", "c", "d", "e", "f", "g"}

\* BASE_SEGMENT_MAP as the set of lit segments (pattern value 0) per character
BASE_SEGMENT_MAP ==
    (" " :> {}) @@
    ("0" :> {"a","b","c","d","e","f"}) @@
    ("1" :> {"b","c"}) @@
    ("2" :> {"a","b","d","e","g"}) @@
    ("3" :> {"a","b","c","d","g"}) @@
    ("4" :> {"b","c","f","g"}) @@
    ("5" :> {"a","c","d","f","g"}) @@
    ("6" :> {"a","c","d","e","f","g"}) @@
    ("7" :> {"a","b","c"}) @@
    ("8" :> {"a","b","c","d","e","f","g"}) @@
    ("9" :> {"a","b","c","d","f","g"}) @@
    ("A" :> {"a","b","c","e","f","g"}) @@
    ("B" :> {"c","d","e","f","g"}) @@
    ("C" :> {"a","d","e","f"}) @@
    ("E" :> {"a","d","e","f","g"}) @@
    ("F" :> {"a","e","f","g"}) @@
    ("H" :> {"b","c","e","f","g"}) @@
    ("I" :> {"e","f"}) @@
    ("L" :> {"d","e","f"}) @@
    ("N" :> {"a","b","e","g"}) @@
    ("O" :> {"a","b","c","d","e","f"}) @@
    ("P" :> {"a","b","e","f","g"}) @@
    ("S" :> {"a","c","d","f","g"}) @@
    ("U" :> {"c","d","e"}) @@
    ("W" :> {"b","c","d","f"}) @@
    ("-" :> {"g"})

\* str.upper() on one character
UpperMap ==
    ("a" :> "A") @@ ("b" :> "B") @@ ("c" :> "C") @@ ("d" :> "D") @@
    ("e" :> "E") @@ ("f" :> "F") @@ ("g" :> "G") @@ ("h" :> "H") @@
    ("i" :> "I") @@ ("j" :> "J") @@ ("k" :> "K") @@ ("l" :> "L") @@
    ("m" :> "M") @@ ("n" :> "N") @@ ("o" :> "O") @@ ("p" :> "P") @@
    ("q" :> "Q") @@ ("r" :> "R") @@ ("s" :> "S") @@ ("t" :> "T") @@
    ("u" :> "U") @@ ("v" :> "V") @@ ("w" :> "W") @@ ("x" :> "X") @@
    ("y" :> "Y") @@ ("z" :> "Z")

upper(c) == IF c \in DOMAIN UpperMap THEN UpperMap[c] ELSE c

BlankSlot == <<" ", FALSE>>
BlankData == <<BlankSlot, BlankSlot, BlankSlot, BlankSlot>>

\* The display as one value: the buffer and the two persisted indicator flags
\* (text: the argument of the last show_text call, kept for observation)
Disp == [data |-> display_data, colon |-> colon_on, degree |-> degree_on,
         text |-> last_text]

\* show_text's while loop; text_pos and display_pos are 0-based as in the code
RECURSIVE show_text_loop(_, _, _, _)
show_text_loop(text, text_pos, display_pos, data) ==
    IF text_pos < Len(text) /\ display_pos < 4
    THEN LET char   == upper(text[text_pos + 1])
             has_dp == text_pos + 1 < Len(text) /\ text[text_pos + 2] = "."
             skip   == IF has_dp THEN 1 ELSE 0
         IN  show_text_loop(text, text_pos + skip + 1, display_pos + 1,
                            [data EXCEPT ![display_pos + 1] = <<char, has_dp>>])
    ELSE data

\* show_text without the reset of the buffer (line 126 left out)
show_text_no_reset(d, text, colon, degree) ==
    [data   |-> show_text_loop(text, 0, 0, d.data),
     colon  |-> IF colon # None THEN colon[1] ELSE d.colon,
     degree |-> IF degree # None THEN degree[1] ELSE d.degree,
     text   |-> text]

\* a show_text whose omitted colon or degree switches the indicator off
show_text_flags_reset(d, text, colon, degree) ==
    [data   |-> show_text_loop(text, 0, 0, BlankData),
     colon  |-> IF colon # None THEN colon[1] ELSE FALSE,
     degree |-> IF degree # None THEN degree[1] ELSE FALSE,
     text   |-> text]

show_text(d, text, colon, degree) ==
    [data   |-> show_text_loop(text, 0, 0, BlankData),
     colon  |-> IF colon # None THEN colon[1] ELSE d.colon,
     degree |-> IF degree # None THEN degree[1] ELSE d.degree,
     text   |-> text]

DigitChar == <<"0","1","2","3","4","5","6","7","8","9">>

\* the decimal digits of a natural number, most significant first
RECURSIVE NatChars(_)
NatChars(n) ==
    IF n < 10 THEN <<DigitChar[n + 1]>>
    ELSE Append(NatChars(n \div 10), DigitChar[(n % 10) + 1])

RECURSIVE Spaces(_)
Spaces(n) == IF n <= 0 THEN <<>> ELSE <<" ">> \o Spaces(n - 1)

PadLeft(s, width) == Spaces(width - Len(s)) \o s

\* f"{n:02d}" for n >= 0
Fmt02d(n) == IF n < 10 THEN <<"0">> \o NatChars(n) ELSE NatChars(n)

show_time(d, hour, minute, colon_blink) ==
    show_text(d, Fmt02d(hour) \o Fmt02d(minute), Some(colon_blink), Some(FALSE))

Abs(v) == IF v < 0 THEN -v ELSE v

\* f"{t:W.1f}" for t = v/100.  v is never an exact tie (v % 10 # 5)
FmtF1(v, width) ==
    LET tenths == (Abs(v) + 5) \div 10
        body   == NatChars(tenths \div 10) \o <<".">> \o <<DigitChar[(tenths % 10) + 1]>>
    IN  PadLeft((IF v < 0 THEN <<"-">> ELSE <<>>) \o body, width)

\* f"{t:W.0f}" for t = v/100; an exact half rounds to even
FmtF0(v, width) ==
    LET q     == Abs(v) \div 100
        r     == Abs(v) % 100
        units == IF r > 50 \/ (r = 50 /\ q % 2 = 1) THEN q + 1 ELSE q
    IN  PadLeft((IF v < 0 THEN <<"-">> ELSE <<>>) \o NatChars(units), width)

temp_str(v) ==
    LET s == IF v >= 10000 THEN FmtF0(v, 4)
             ELSE IF v >= 1000 THEN FmtF1(v, 4)
             ELSE IF v >= 0 THEN <<" ">> \o FmtF1(v, 3)
             ELSE FmtF1(v, 4)
    IN  IF Len(s) >= 4 THEN SubSeq(s, 1, 3) \o <<"C">> ELSE s

show_temperature(d, v) == show_text(d, temp_str(v), Some(FALSE), Some(TRUE))

clear(d) == show_text(d, <<" "," "," "," ">>, Some(FALSE), Some(FALSE))

\* refresh: the segment lines asserted for one slot (lines 196-201)
refresh_segments(slot) ==
    IF slot[1] \in DOMAIN BASE_SEGMENT_MAP THEN BASE_SEGMENT_MAP[slot[1]] ELSE {}

----------------------------------------------------------------------------
(* Scroller *)

Scr == [message |-> message, index |-> index, is_active |-> is_active,
        loop |-> loop, last |-> last_scroll_time_ms]

\* Python slice s[i:j] with 0 <= i, on a sequence
Slice(s, i, j) == SubSeq(s, i + 1, IF j > Len(s) THEN Len(s) ELSE j)

\* a start that shows a short text but leaves a running scroll running
scroller_start_no_deactivate(s, d, text, lp, t) ==
    IF Len(text) <= 4
    THEN [s |-> s, d |-> show_text(d, text, None, None)]
    ELSE [s |-> [message |-> Spaces(3) \o text \o Spaces(3), index |-> 0,
                 is_active |-> TRUE, loop |-> lp, last |-> t],
          d |-> d]

\* a start that sets loop whatever the caller asked for
scroller_start_looping(s, d, text, lp, t) ==
    IF Len(text) <= 4
    THEN [s |-> [s EXCEPT !.is_active = FALSE],
          d |-> show_text(d, text, None, None)]
    ELSE [s |-> [message |-> Spaces(3) \o text \o Spaces(3), index |-> 0,
                 is_active |-> TRUE, loop |-> TRUE, last |-> t],
          d |-> d]

\* Scroller.start(text, loop) at time t; yields the new scroller and display
scroller_start(s, d, text, lp, t) ==
    IF Len(text) <= 4
    THEN [s |-> [s EXCEPT !.is_active = FALSE],
          d |-> show_text(d, text, None, None)]
    ELSE [s |-> [message |-> Spaces(3) \o text \o Spaces(3), index |-> 0,
                 is_active |-> TRUE, loop |-> lp, last |-> t],
          d |-> d]

\* a stop that also rewinds the cursor
scroller_stop_rewind(s) == [s EXCEPT !.is_active = FALSE, !.index = 0]

scroller_stop(s) == [s EXCEPT !.is_active = FALSE]

\* an update that ends the scroll one frame early
scroller_update_early_end(s, d, t) ==
    IF ~s.is_active THEN [s |-> s, d |-> d]
    ELSE IF ticks_diff(t, s.last) > SCROLL_DELAY_MS
    THEN LET display_slice == Slice(s.message, s.index, s.index + 4)
             idx == s.index + 1
             done == idx >= Len(s.message) - 4
         IN  [s |-> [s EXCEPT !.last = t,
                              !.index = IF done /\ s.loop THEN 0 ELSE idx,
                              !.is_active = ~(done /\ ~s.loop)],
              d |-> show_text(d, display_slice, Some(FALSE), Some(FALSE))]
    ELSE [s |-> s, d |-> d]

\* an update that ends the scroll one frame late
scroller_update_late_end(s, d, t) ==
    IF ~s.is_active THEN [s |-> s, d |-> d]
    ELSE IF ticks_diff(t, s.last) > SCROLL_DELAY_MS
    THEN LET display_slice == Slice(s.message, s.index, s.index + 4)
             idx == s.index + 1
             done == idx > Len(s.message) - 3
         IN  [s |-> [s EXCEPT !.last = t,
                              !.index = IF done /\ s.loop THEN 0 ELSE idx,
                              !.is_active = ~(done /\ ~s.loop)],
              d |-> show_text(d, display_slice, Some(FALSE), Some(FALSE))]
    ELSE [s |-> s, d |-> d]

\* an update that already advances when exactly the interval has elapsed
scroller_update_at_interval(s, d, t) ==
    IF ~s.is_active THEN [s |-> s, d |-> d]
    ELSE IF ticks_diff(t, s.last) >= SCROLL_DELAY_MS
    THEN LET display_slice == Slice(s.message, s.index, s.index + 4)
             idx == s.index + 1
             done == idx > Len(s.message) - 4
         IN  [s |-> [s EXCEPT !.last = t,
                              !.index = IF done /\ s.loop THEN 0 ELSE idx,
                              !.is_active = ~(done /\ ~s.loop)],
              d |-> show_text(d, display_slice, Some(FALSE), Some(FALSE))]
    ELSE [s |-> s, d |-> d]

\* an update that renders without forcing the indicators off
scroller_update_keep_flags(s, d, t) ==
    IF ~s.is_active THEN [s |-> s, d |-> d]
    ELSE IF ticks_diff(t, s.last) > SCROLL_DELAY_MS
    THEN LET display_slice == Slice(s.message, s.index, s.index + 4)
             idx == s.index + 1
             done == idx > Len(s.message) - 4
         IN  [s |-> [s EXCEPT !.last = t,
                              !.index = IF done /\ s.loop THEN 0 ELSE idx,
                              !.is_active = ~(done /\ ~s.loop)],
              d |-> show_text(d, display_slice, None, None)]
    ELSE [s |-> s, d |-> d]

\* Scroller.update() at time t
scroller_update(s, d, t) ==
    IF ~s.is_active THEN [s |-> s, d |-> d]
    ELSE IF ticks_diff(t, s.last) > SCROLL_DELAY_MS
    THEN LET display_slice == Slice(s.message, s.index, s.index + 4)
             idx == s.index + 1
             done == idx > Len(s.message) - 4
         IN  [s |-> [s EXCEPT !.last = t,
                              !.index = IF done /\ s.loop THEN 0 ELSE idx,
                              !.is_active = ~(done /\ ~s.loop)],
              d |-> show_text(d, display_slice, Some(FALSE), Some(FALSE))]
    ELSE [s |-> s, d |-> d]

SetDisp(d) ==
    /\ display_data' = d.data
    /\ colon_on' = d.colon
    /\ degree_on' = d.degree
    /\ last_text' = d.text

SetScr(s) ==
    /\ message' = s.message
    /\ index' = s.index
    /\ is_active' = s.is_active
    /\ loop' = s.loop
    /\ last_scroll_time_ms' = s.last

----------------------------------------------------------------------------
(* The state after construction: SevenSegmentDisplay.__init__,             *)
(* Scroller.__init__, RestApiServer.__init__, ClockApp.__init__            *)

\* PINS
PINS ==
    ("a" :> 2) @@ ("b" :> 3) @@ ("c" :> 4) @@ ("d" :> 5) @@ ("e" :> 6) @@
    ("f" :> 7) @@ ("g" :> 8) @@ ("dp" :> 9) @@
    ("d1" :> 18) @@ ("d2" :> 19) @@ ("d3" :> 21) @@ ("d4" :> 12) @@
    ("colon_anode" :> 20) @@ ("colon_cathode" :> 13) @@
    ("deg_anode" :> 11) @@ ("deg_cathode" :> 10)

\* _get_pin_mask: a mask is the set of the pin numbers whose bit it has
get_pin_mask(pin_names) == {PINS[name] : name \in pin_names}

\* the masks of _setup_mem32
anode_pins_list == <<"d1", "d2", "d3", "d4">>
ALL_ANODES_MASK == get_pin_mask({"d1", "d2", "d3", "d4"})
ANODE_MASKS == [i \in 1..4 |-> get_pin_mask({anode_pins_list[i]})]
ALL_SEGMENTS_MASK == get_pin_mask(Segments)
DP_MASK == get_pin_mask({"dp"})
SEG_ON_MASKS == [char \in DOMAIN BASE_SEGMENT_MAP |->
                    get_pin_mask(BASE_SEGMENT_MAP[char])]
SEG_OFF_MASKS == [char \in DOMAIN BASE_SEGMENT_MAP |->
                     get_pin_mask(Segments \ BASE_SEGMENT_MAP[char])]
COLON_ANODE_MASK == get_pin_mask({"colon_anode"})
COLON_CATHODE_MASK == get_pin_mask({"colon_cathode"})
DEG_ANODE_MASK == get_pin_mask({"deg_anode"})
DEG_CATHODE_MASK == get_pin_mask({"deg_cathode"})

\* machine.mem32[GPIO_OUT_SET] = mask and machine.mem32[GPIO_OUT_CLR] = mask
GPIO_OUT_SET(mask) == <<"GPIO_OUT_SET", mask>>
GPIO_OUT_CLR(mask) == <<"GPIO_OUT_CLR", mask>>
mem32_write(g, w) == IF w[1] = "GPIO_OUT_SET" THEN g \cup w[2] ELSE g \ w[2]

\* the two writes that end _setup_mem32
setup_writes ==
    <<GPIO_OUT_CLR(ALL_ANODES_MASK \cup COLON_ANODE_MASK \cup DEG_ANODE_MASK),
      GPIO_OUT_SET(ALL_SEGMENTS_MASK \cup DP_MASK \cup COLON_CATHODE_MASK
                      \cup DEG_CATHODE_MASK)>>

\* a body of refresh()'s loop that lights the digit before its segments are set
slot_writes_digit_first(d, i) ==
    LET char   == d.data[i + 1][1]
        has_dp == d.data[i + 1][2]
    IN  <<GPIO_OUT_CLR(ALL_ANODES_MASK)>>
        \o <<GPIO_OUT_SET(ANODE_MASKS[i + 1])>>
        \o (IF char \in DOMAIN SEG_ON_MASKS
            THEN <<GPIO_OUT_SET(SEG_OFF_MASKS[char]), GPIO_OUT_CLR(SEG_ON_MASKS[char])>>
            ELSE <<GPIO_OUT_SET(ALL_SEGMENTS_MASK)>>)
        \o <<IF has_dp THEN GPIO_OUT_CLR(DP_MASK) ELSE GPIO_OUT_SET(DP_MASK)>>
        \o (IF i = 0
            THEN (IF d.colon
                  THEN <<GPIO_OUT_SET(COLON_ANODE_MASK), GPIO_OUT_CLR(COLON_CATHODE_MASK)>>
                  ELSE <<GPIO_OUT_CLR(COLON_ANODE_MASK)>>)
                 \o (IF d.degree
                     THEN <<GPIO_OUT_SET(DEG_ANODE_MASK), GPIO_OUT_CLR(DEG_CATHODE_MASK)>>
                     ELSE <<GPIO_OUT_CLR(DEG_ANODE_MASK)>>)
            ELSE <<>>)

\* the register writes of one pass of refresh()'s loop, for slot i (0-based)
slot_writes(d, i) ==
    LET char   == d.data[i + 1][1]
        has_dp == d.data[i + 1][2]
    IN  <<GPIO_OUT_CLR(ALL_ANODES_MASK)>>
        \o (IF char \in DOMAIN SEG_ON_MASKS
            THEN <<GPIO_OUT_SET(SEG_OFF_MASKS[char]), GPIO_OUT_CLR(SEG_ON_MASKS[char])>>
            ELSE <<GPIO_OUT_SET(ALL_SEGMENTS_MASK)>>)
        \o <<IF has_dp THEN GPIO_OUT_CLR(DP_MASK) ELSE GPIO_OUT_SET(DP_MASK)>>
        \o <<GPIO_OUT_SET(ANODE_MASKS[i + 1])>>
        \o (IF i = 0
            THEN (IF d.colon
                  THEN <<GPIO_OUT_SET(COLON_ANODE_MASK), GPIO_OUT_CLR(COLON_CATHODE_MASK)>>
                  ELSE <<GPIO_OUT_CLR(COLON_ANODE_MASK)>>)
                 \o (IF d.degree
                     THEN <<GPIO_OUT_SET(DEG_ANODE_MASK), GPIO_OUT_CLR(DEG_CATHODE_MASK)>>
                     ELSE <<GPIO_OUT_CLR(DEG_ANODE_MASK)>>)
            ELSE <<>>)

refresh_writes(d) ==
    slot_writes(d, 0) \o slot_writes(d, 1) \o slot_writes(d, 2) \o slot_writes(d, 3)

RECURSIVE apply_writes(_, _)
apply_writes(g, ws) ==
    IF ws = <<>> THEN g ELSE apply_writes(mem32_write(g, Head(ws)), Tail(ws))

\* refresh(): the register after the whole pass
refresh(g, d) == apply_writes(g, refresh_writes(d))

\* a dict over the parameter names: a name maps to None when it is not a key
NoParams == [text |-> None, colon |-> None, degree |-> None, duration |-> None,
             loop |-> None]

\* request bodies: none, a form-encoded body (fields: its pairs), a JSON
\* object (fields: its members) or a JSON number n
NoBody == [kind |-> "none", fields |-> NoParams, n |-> 0]
FormBody(f) == [kind |-> "form", fields |-> f, n |-> 0]
JsonObject(f) == [kind |-> "json_object", fields |-> f, n |-> 0]
JsonNumber(n) == [kind |-> "json_number", fields |-> NoParams, n |-> n]

\* no request read
NoRequest == [recv_ok |-> FALSE, method |-> "", path |-> "", query |-> NoParams,
              has_length |-> FALSE, body |-> NoBody]

InitObjects ==
    /\ display_data = BlankData
    /\ colon_on = FALSE
    /\ degree_on = FALSE
    /\ last_text = <<>>
    /\ gpio = apply_writes({}, setup_writes)
    /\ refresh_i = 0
    /\ refresh_k = 0
    /\ pass_writes = <<>>
    /\ prev_writes = <<>>
    /\ n_passes = 0
    /\ last_write = setup_writes[2]
    /\ request = NoRequest
    /\ responses = <<>>
    /\ conn = "none"
    /\ message = <<>>
    /\ index = 0
    /\ is_active = FALSE
    /\ loop = FALSE
    /\ last_scroll_time_ms = 0
    /\ state = "STARTUP"
    /\ next_state_after_scroll = "None"
    /\ last_data_update_ms = 0
    /\ last_mode_switch_ms = 0
    /\ time_temp_mode = "time"
    /\ colon_blink_state = FALSE
    /\ api_mode_end_ms = 0
    /\ button_state = FALSE
    /\ last_manual_action_ms = 0
    /\ manual_mode_index = 0
    /\ ip_address = NO_IP
    /\ is_listening = FALSE
    /\ script_state = "STARTUP_SCROLL"
    /\ disp_buf = <<<<" ">>, <<" ">>, <<" ">>, <<" ">>>>
    /\ wlan = FALSE
    /\ script_ip = NO_IP
    /\ scroll_msg = [i \in 1..(Len(STARTUP_MESSAGE) + 6) |->
                       <<(Spaces(3) \o STARTUP_MESSAGE \o Spaces(3))[i]>>]
    /\ scroll_idx = 0
    /\ last_scroll_ms = 0
    /\ last_data_ms = 0
    /\ script_colon = FALSE
    /\ script_degree = FALSE
    /\ tt_mode = "time"
    /\ last_mode_sw_ms = 0
    /\ btn_state = FALSE
    /\ last_manual_ms = 0
    /\ manual_idx = 0
    /\ ticks_zero = 0
    /\ n_presses = 0
    /\ n_requests = 0
    /\ n_ops = 0
    /\ last_event = "init"
    /\ n_advances = 0
    /\ elapsed_ms = 0
    /\ app_write_while_scrolling = FALSE

----------------------------------------------------------------------------
(* Driver: the display and Scroller operations applied in any order, the   *)
(* text operations to a text drawn from a bounded set at the start         *)

MaxTextLen == 5
MaxOps == 3
\* operations in a run of the Scroller alone
MaxScrollOps == 10

DriverChars == {"1", ".", "x"}
Texts == UNION {[1..n -> DriverChars] : n \in 0..MaxTextLen}
DriverFlags == {None, Some(TRUE)}
DriverHours == {23}
DriverMinutes == {5}
DriverTemps == {-346, 2346}
DriverSteps == {SCROLL_DELAY_MS, SCROLL_DELAY_MS + 1}

\* the last pass is remembered while the buffer stays as that pass found it
BufferWritten ==
    IF <<display_data', colon_on', degree_on'>> = <<display_data, colon_on, degree_on>>
    THEN UNCHANGED <<prev_writes, n_passes>>
    ELSE prev_writes' = <<>> /\ n_passes' = 0

DriverStep(ev) ==
    /\ pc \in {"driver", "scroller"}
    /\ n_ops < (IF pc = "driver" THEN MaxOps ELSE MaxScrollOps)
    /\ n_ops' = n_ops + 1
    /\ last_event' = ev
    /\ UNCHANGED <<gpio, refresh_i, refresh_k, last_write, pass_writes, reqVars,
                   appVars, scriptVars, pc, n_presses, n_requests, in_text, in_temp,
                   app_write_while_scrolling>>

DrvShowText(text, colon, degree) ==
    /\ DriverStep("show_text")
    /\ SetDisp(show_text(Disp, text, colon, degree))
    /\ UNCHANGED <<scrVars, ticks_zero, n_advances, elapsed_ms>>
    /\ BufferWritten

DrvShowTime(hour, minute, colon_blink) ==
    /\ DriverStep("show_time")
    /\ SetDisp(show_time(Disp, hour, minute, colon_blink))
    /\ UNCHANGED <<scrVars, ticks_zero, n_advances, elapsed_ms>>
    /\ BufferWritten

DrvShowTemperature(v) ==
    /\ DriverStep("show_temperature")
    /\ SetDisp(show_temperature(Disp, v))
    /\ UNCHANGED <<scrVars, ticks_zero, n_advances, elapsed_ms>>
    /\ BufferWritten

DrvClear ==
    /\ DriverStep("clear")
    /\ SetDisp(clear(Disp))
    /\ UNCHANGED <<scrVars, ticks_zero, n_advances, elapsed_ms>>
    /\ BufferWritten

DrvStart(text, lp) ==
    /\ DriverStep("start")
    /\ LET r == scroller_start(Scr, Disp, text, lp, now)
       IN  SetScr(r.s) /\ SetDisp(r.d)
    /\ n_advances' = 0
    /\ UNCHANGED <<ticks_zero, elapsed_ms>>
    /\ BufferWritten

\* Scroller.start on a text that always scrolls
HelloText == <<"H","E","L","L","O">>

DrvStartHello(lp) ==
    /\ DriverStep("start_hello")
    /\ LET r == scroller_start(Scr, Disp, HelloText, lp, now)
       IN  SetScr(r.s) /\ SetDisp(r.d)
    /\ n_advances' = 0
    /\ UNCHANGED <<ticks_zero, elapsed_ms>>
    /\ BufferWritten

DrvStop ==
    /\ DriverStep("stop")
    /\ SetScr(scroller_stop(Scr))
    /\ UNCHANGED <<dispVars, ticks_zero, n_advances, elapsed_ms>>
    /\ BufferWritten

\* dt milliseconds pass, then Scroller.update() is called
DrvUpdate(dt) ==
    /\ DriverStep("update")
    /\ ticks_zero' = shift(ticks_zero, dt, EXPIRY_BACK)
    /\ elapsed_ms' = -shift(last_scroll_time_ms, dt, SCROLL_BACK)
    /\ LET r == scroller_update([Scr EXCEPT !.last = shift(@, dt, SCROLL_BACK)], Disp, now)
       IN  /\ SetScr(r.s)
           /\ SetDisp(r.d)
           /\ n_advances' = IF r.s.index # index THEN n_advances + 1 ELSE n_advances
    /\ BufferWritten

InitDriver == InitObjects /\ pc = "driver" /\ in_text \in Texts /\ in_temp = 0

NextDriver ==
    \/ \E colon \in DriverFlags, degree \in DriverFlags :
          DrvShowText(in_text, colon, degree)
    \/ \E hour \in DriverHours, minute \in DriverMinutes, b \in BOOLEAN :
          DrvShowTime(hour, minute, b)
    \/ \E v \in DriverTemps : DrvShowTemperature(v)
    \/ DrvClear
    \/ \E lp \in BOOLEAN : DrvStart(in_text, lp)
    \/ DrvStop
    \/ \E dt \in DriverSteps : DrvUpdate(dt)

SpecDriver == InitDriver /\ [][NextDriver]_vars

\* show_temperature applied to one temperature, between other writes of the
\* buffer

\* hundredths of a degree: below 0, below 10, from 10 up to 100 with the
\* second decimal below and above 5, and 100 and more
TempInputs == {-346, 346, 1000, 1004, 1996, 2344, 2346, 3141, 5001, 7502, 9876,
               9994, 12346}

InitTemp == InitObjects /\ pc = "driver" /\ in_text = <<>> /\ in_temp \in TempInputs

NextTemp ==
    \/ DrvShowTemperature(in_temp)
    \/ \E h \in DriverHours, mi \in DriverMinutes : DrvShowTime(h, mi, TRUE)
    \/ DrvClear

SpecTemp == InitTemp /\ [][NextTemp]_vars

\* refresh() taken one register write at a time, between writes of the buffer
RefreshTexts == {t \in Texts : Len(t) <= 2}

RefreshStep(ev) ==
    /\ last_event' = ev
    /\ UNCHANGED <<dispVars, scrVars, appVars, scriptVars, ticks_zero, n_presses,
                   n_requests, n_ops, in_text, in_temp, n_advances, elapsed_ms,
                   app_write_while_scrolling, reqVars>>

\* refresh() is entered: for i in range(4)
RefreshBegin ==
    /\ pc = "driver"
    /\ pc' = "refreshing"
    /\ refresh_i' = 0
    /\ refresh_k' = 0
    /\ RefreshStep("refresh_begin")
    /\ UNCHANGED <<gpio, last_write, pass_writes, prev_writes, n_passes>>

\* a loop body that skips a register write which would change no line
RefreshWriteOnChange ==
    /\ pc = "refreshing"
    /\ refresh_k < Len(slot_writes(Disp, refresh_i))
    /\ LET w == slot_writes(Disp, refresh_i)[refresh_k + 1]
       IN  /\ gpio' = mem32_write(gpio, w)
           /\ last_write' = w
           /\ pass_writes' = IF mem32_write(gpio, w) = gpio THEN pass_writes
                             ELSE Append(pass_writes, w)
    /\ refresh_k' = refresh_k + 1
    /\ RefreshStep("mem32")
    /\ UNCHANGED <<pc, refresh_i, prev_writes, n_passes>>

\* the next machine.mem32[...] = mask of the loop body
RefreshWrite ==
    /\ pc = "refreshing"
    /\ refresh_k < Len(slot_writes(Disp, refresh_i))
    /\ LET w == slot_writes(Disp, refresh_i)[refresh_k + 1]
       IN  /\ gpio' = mem32_write(gpio, w)
           /\ last_write' = w
           /\ pass_writes' = Append(pass_writes, w)
    /\ refresh_k' = refresh_k + 1
    /\ RefreshStep("mem32")
    /\ UNCHANGED <<pc, refresh_i, prev_writes, n_passes>>

\* utime.sleep_us(refresh_delay_us), then the next slot or the return
RefreshSleep ==
    /\ pc = "refreshing"
    /\ refresh_k = Len(slot_writes(Disp, refresh_i))
    /\ IF refresh_i < 3
       THEN /\ refresh_i' = refresh_i + 1
            /\ refresh_k' = 0
            /\ UNCHANGED <<pc, pass_writes, prev_writes, n_passes>>
       ELSE /\ pc' = "driver"
            /\ prev_writes' = pass_writes
            /\ pass_writes' = <<>>
            /\ n_passes' = IF n_passes < 2 THEN n_passes + 1 ELSE 2
            /\ UNCHANGED <<refresh_i, refresh_k>>
    /\ RefreshStep("sleep_us")
    /\ UNCHANGED <<gpio, last_write>>

InitRefresh == InitObjects /\ pc = "driver" /\ in_text \in RefreshTexts /\ in_temp = 0

NextRefresh ==
    \/ \E colon \in DriverFlags, degree \in DriverFlags :
          DrvShowText(in_text, colon, degree)
    \/ \E h \in DriverHours, mi \in DriverMinutes : DrvShowTime(h, mi, TRUE)
    \/ \E v \in DriverTemps : DrvShowTemperature(v)
    \/ DrvClear
    \/ RefreshBegin
    \/ RefreshWrite
    \/ RefreshSleep

SpecRefresh == InitRefresh /\ [][NextRefresh]_vars

\* The Scroller alone: start, stop and update in any order on one text, the
\* updates at, just past and well short of the scroll interval
ScrollSteps == {200, SCROLL_DELAY_MS, SCROLL_DELAY_MS + 1}

ScrollChars == {"1", "."}
ScrollerTexts == UNION {[1..n -> ScrollChars] : n \in 0..MaxTextLen}

InitScroll == InitObjects /\ pc = "scroller" /\ in_text \in ScrollerTexts /\ in_temp = 0

NextScroll ==
    \/ \E lp \in BOOLEAN : DrvStart(in_text, lp)
    \/ DrvStartHello(FALSE)
    \/ DrvStop
    \/ \E dt \in ScrollSteps : DrvUpdate(dt)

SpecScroll == InitScroll /\ [][NextScroll]_vars

----------------------------------------------------------------------------
(* ClockApp and RestApiServer (main_mem32.py): one action per step of      *)
(* ClockApp.run's loop: refresh, _handle_button_press,                     *)
(* _update_state_machine, api_server.poll                                  *)

\* inputs the environment may deliver in one run: an honored press counts 1,
\* a request RequestWeight
MaxInputs == 4
RequestWeight == 2
inputs_used == n_presses + RequestWeight * n_requests

\* what the clock can advance by over one pass of the loop
TimeSteps == {1000}

\* the clock advances by dt: every time ClockApp has recorded moves back
Elapse(dt) ==
    /\ ticks_zero' = shift(ticks_zero, dt, EXPIRY_BACK)
    /\ last_data_update_ms' = shift(last_data_update_ms, dt, DATA_BACK)
    /\ last_mode_switch_ms' = shift(last_mode_switch_ms, dt, MODE_BACK)
    /\ api_mode_end_ms' = shift(api_mode_end_ms, dt, EXPIRY_BACK)
    /\ last_manual_action_ms' = shift(last_manual_action_ms, dt, MANUAL_BACK)

\* the collaborators' answers
ClockTimes == {<<12, 34>>}
AppTemps == {2346}
IpAddresses == {<<"1",".","2",".","3",".","4">>}
WIFI_MAX_WAIT == 10
\* seconds _connect_to_wifi takes when the association succeeds
ConnectSeconds == {1}

ManualStates == {"MANUAL_MODE", "MANUAL_IP_SCROLL"}
ApiStates == {"API_STATIC", "API_SCROLL"}

\* run(): display.refresh() leaves the buffer alone; then ticks_ms() is read
LoopTop(dt) ==
    /\ pc = "refresh"
    /\ Elapse(dt)
    /\ last_scroll_time_ms' = shift(last_scroll_time_ms, dt, SCROLL_BACK)
    /\ pc' = "button"
    /\ last_event' = "refresh"
    /\ app_write_while_scrolling' = FALSE
    /\ gpio' = refresh(gpio, Disp)
    /\ last_write' = refresh_writes(Disp)[Len(refresh_writes(Disp))]
    /\ request' = NoRequest
    /\ responses' = <<>>
    /\ conn' = "none"
    /\ UNCHANGED <<dispVars, message, index, is_active, loop, state,
                   next_state_after_scroll, time_temp_mode, colon_blink_state,
                   button_state, manual_mode_index, ip_address, is_listening,
                   scriptVars, n_presses, n_requests, n_ops, in_text, in_temp,
                   n_advances, elapsed_ms, refresh_i, refresh_k,
                   pass_writes, prev_writes, n_passes>>

\* an index that is not reduced modulo 3
next_manual_index_no_wrap(st, idx) ==
    IF st \in ManualStates THEN idx + 1 ELSE 0

\* _handle_button_press: the index after an honored press
next_manual_index(st, idx) ==
    IF st \in ManualStates THEN (idx + 1) % 3 ELSE 0

\* a button step that honors the level of the button, not its edge
HandleButtonLevel(is_pressed, still_pressed) ==
    /\ pc = "button"
    /\ LET honored == is_pressed /\ still_pressed
           idx     == next_manual_index(state, manual_mode_index)
       IN  IF honored
           THEN /\ inputs_used + 1 <= MaxInputs
                /\ n_presses' = n_presses + 1
                /\ last_manual_action_ms' = now
                /\ SetScr(IF state = "MANUAL_IP_SCROLL" THEN scroller_stop(Scr) ELSE Scr)
                /\ manual_mode_index' = idx
                /\ state' = IF idx = 2 THEN "MANUAL_IP_SCROLL" ELSE "MANUAL_MODE"
                /\ last_event' = "press"
           ELSE /\ UNCHANGED <<n_presses, last_manual_action_ms, scrVars,
                               manual_mode_index, state>>
                /\ last_event' = IF is_pressed /\ ~button_state THEN "bounce"
                                 ELSE "no_press"
    /\ button_state' = is_pressed
    /\ pc' = "tick"
    /\ app_write_while_scrolling' = FALSE
    /\ UNCHANGED <<dispVars, next_state_after_scroll, last_data_update_ms,
                   last_mode_switch_ms, time_temp_mode, colon_blink_state,
                   api_mode_end_ms, ip_address, is_listening, ticks_zero,
                   scriptVars, n_requests, n_ops, in_text, in_temp, n_advances,
                   elapsed_ms, hwVars, reqVars>>

\* _handle_button_press(current_time_ms); is_pressed and still_pressed are the
\* two samples of rp2.bootsel_button(), before and after the settle delay
HandleButton(is_pressed, still_pressed) ==
    /\ pc = "button"
    /\ LET honored == is_pressed /\ ~button_state /\ still_pressed
           idx     == next_manual_index(state, manual_mode_index)
       IN  IF honored
           THEN /\ inputs_used + 1 <= MaxInputs
                /\ n_presses' = n_presses + 1
                /\ last_manual_action_ms' = now
                /\ SetScr(IF state = "MANUAL_IP_SCROLL" THEN scroller_stop(Scr) ELSE Scr)
                /\ manual_mode_index' = idx
                /\ state' = IF idx = 2 THEN "MANUAL_IP_SCROLL" ELSE "MANUAL_MODE"
                /\ last_event' = "press"
           ELSE /\ UNCHANGED <<n_presses, last_manual_action_ms, scrVars,
                               manual_mode_index, state>>
                /\ last_event' = IF is_pressed /\ ~button_state THEN "bounce"
                                 ELSE "no_press"
    /\ button_state' = is_pressed
    /\ pc' = "tick"
    /\ app_write_while_scrolling' = FALSE
    /\ UNCHANGED <<dispVars, next_state_after_scroll, last_data_update_ms,
                   last_mode_switch_ms, time_temp_mode, colon_blink_state,
                   api_mode_end_ms, ip_address, is_listening, ticks_zero,
                   scriptVars, n_requests, n_ops, in_text, in_temp, n_advances,
                   elapsed_ms, hwVars, reqVars>>

\* _format_ip_for_display
format_ip_for_display(ip) == ip

TickDone(ev) ==
    /\ pc = "tick"
    /\ pc' = "poll"
    /\ last_event' = ev
    /\ UNCHANGED <<button_state, manual_mode_index, scriptVars,
                   n_presses, n_requests, n_ops, in_text, in_temp, n_advances,
                   elapsed_ms, hwVars, reqVars>>

\* Priority 1: the scroller is busy
TickScrolling ==
    /\ is_active
    /\ TickDone("tick_scroll")
    /\ LET r == scroller_update(Scr, Disp, now)
       IN  SetScr(r.s) /\ SetDisp(r.d)
    /\ app_write_while_scrolling' = FALSE
    /\ UNCHANGED <<state, next_state_after_scroll, last_data_update_ms,
                   last_mode_switch_ms, time_temp_mode, colon_blink_state,
                   api_mode_end_ms, ip_address, is_listening, last_manual_action_ms, ticks_zero>>

\* STARTUP that starts the greeting without recording where to go afterwards
TickStartupNoNext ==
    /\ ~is_active
    /\ state = "STARTUP"
    /\ TickDone("tick_startup")
    /\ LET r == scroller_start(Scr, Disp, STARTUP_MESSAGE, FALSE, now)
       IN  SetScr(r.s) /\ SetDisp(r.d)
    /\ state' = "AWAIT_SCROLL"
    /\ app_write_while_scrolling' = FALSE
    /\ UNCHANGED <<next_state_after_scroll, last_data_update_ms, last_mode_switch_ms,
                   time_temp_mode, colon_blink_state, api_mode_end_ms, ip_address,
                   is_listening, last_manual_action_ms, ticks_zero>>

TickStartup ==
    /\ ~is_active
    /\ state = "STARTUP"
    /\ TickDone("tick_startup")
    /\ LET r == scroller_start(Scr, Disp, STARTUP_MESSAGE, FALSE, now)
       IN  SetScr(r.s) /\ SetDisp(r.d)
    /\ next_state_after_scroll' = "CONNECTING_WIFI"
    /\ state' = "AWAIT_SCROLL"
    /\ app_write_while_scrolling' = FALSE
    /\ UNCHANGED <<last_data_update_ms, last_mode_switch_ms, time_temp_mode,
                   colon_blink_state, api_mode_end_ms, ip_address, is_listening,
                   last_manual_action_ms, ticks_zero>>

TickAwaitScroll ==
    /\ ~is_active
    /\ state = "AWAIT_SCROLL"
    /\ TickDone("tick_await")
    /\ state' = next_state_after_scroll
    /\ app_write_while_scrolling' = FALSE
    /\ UNCHANGED <<dispVars, scrVars, next_state_after_scroll, last_data_update_ms,
                   last_mode_switch_ms, time_temp_mode, colon_blink_state,
                   api_mode_end_ms, ip_address, is_listening, last_manual_action_ms, ticks_zero>>

\* CONNECTING_WIFI: connected is _connect_to_wifi's result, ip the address it
\* got, listen_ok whether RestApiServer.start could bind, wait_s the seconds
\* _connect_to_wifi slept
TickConnecting(connected, ip, listen_ok, wait_s) ==
    /\ ~is_active
    /\ state = "CONNECTING_WIFI"
    /\ TickDone(IF connected THEN "tick_connected" ELSE "tick_wifi_failed")
    /\ Elapse(wait_s * 1000)
    /\ LET d1 == show_text(Disp, <<"C","O","N","N">>, None, None)
           s1 == [Scr EXCEPT !.last = shift(@, wait_s * 1000, SCROLL_BACK)]
           r  == IF connected
                 THEN scroller_start(s1, d1, format_ip_for_display(ip), FALSE, now)
                 ELSE scroller_start(s1, d1, WIFI_FAIL_MESSAGE, FALSE, now)
       IN  SetScr(r.s) /\ SetDisp(r.d)
    /\ ip_address' = IF connected THEN ip ELSE NO_IP
    /\ is_listening' = (connected /\ listen_ok)
    /\ next_state_after_scroll' = "NORMAL_CYCLE"
    /\ state' = "AWAIT_SCROLL"
    /\ app_write_while_scrolling' = is_active
    /\ UNCHANGED <<time_temp_mode, colon_blink_state>>

\* a NORMAL_CYCLE whose render restarts the rotation timer as well
TickNormalCycleOneTimer(tm, v) ==
    /\ ~is_active
    /\ state = "NORMAL_CYCLE"
    /\ TickDone("tick_normal")
    /\ LET duration_s == IF time_temp_mode = "time" THEN 10 ELSE 5
           switch == ticks_diff(now, last_mode_switch_ms) > duration_s * 1000
           mode   == IF switch
                     THEN (IF time_temp_mode = "time" THEN "temp" ELSE "time")
                     ELSE time_temp_mode
           render == ticks_diff(now, last_data_update_ms) >= 1000
       IN  /\ last_mode_switch_ms' = IF switch \/ render THEN now
                                   ELSE last_mode_switch_ms
           /\ time_temp_mode' = mode
           /\ last_data_update_ms' = IF render THEN now ELSE last_data_update_ms
           /\ colon_blink_state' = IF render /\ mode = "time"
                                   THEN ~colon_blink_state ELSE colon_blink_state
           /\ SetDisp(IF ~render THEN Disp
                      ELSE IF mode = "time"
                      THEN show_time(Disp, tm[1], tm[2], ~colon_blink_state)
                      ELSE show_temperature(Disp, v))
           /\ app_write_while_scrolling' = (render /\ is_active)
    /\ UNCHANGED <<scrVars, state, next_state_after_scroll, api_mode_end_ms,
                   ip_address, is_listening, last_manual_action_ms, ticks_zero>>

\* NORMAL_CYCLE: tm is utime.localtime()'s (hour, minute), v the temperature
TickNormalCycle(tm, v) ==
    /\ ~is_active
    /\ state = "NORMAL_CYCLE"
    /\ TickDone("tick_normal")
    /\ LET duration_s == IF time_temp_mode = "time" THEN 10 ELSE 5
           switch == ticks_diff(now, last_mode_switch_ms) > duration_s * 1000
           mode   == IF switch
                     THEN (IF time_temp_mode = "time" THEN "temp" ELSE "time")
                     ELSE time_temp_mode
           render == ticks_diff(now, last_data_update_ms) >= 1000
       IN  /\ last_mode_switch_ms' = IF switch THEN now ELSE last_mode_switch_ms
           /\ time_temp_mode' = mode
           /\ last_data_update_ms' = IF render THEN now ELSE last_data_update_ms
           /\ colon_blink_state' = IF render /\ mode = "time"
                                   THEN ~colon_blink_state ELSE colon_blink_state
           /\ SetDisp(IF ~render THEN Disp
                      ELSE IF mode = "time"
                      THEN show_time(Disp, tm[1], tm[2], ~colon_blink_state)
                      ELSE show_temperature(Disp, v))
           /\ app_write_while_scrolling' = (render /\ is_active)
    /\ UNCHANGED <<scrVars, state, next_state_after_scroll, api_mode_end_ms,
                   ip_address, is_listening, last_manual_action_ms, ticks_zero>>

\* an expiry test that misses the instant of expiry itself
api_expired_strict == ticks_diff(now, api_mode_end_ms) > 0

\* the remote override has reached its recorded expiry
api_expired == ticks_diff(now, api_mode_end_ms) >= 0

TickApiStatic ==
    /\ ~is_active
    /\ state = "API_STATIC"
    /\ TickDone("tick_api_static")
    /\ state' = IF api_expired THEN "NORMAL_CYCLE" ELSE state
    /\ app_write_while_scrolling' = FALSE
    /\ UNCHANGED <<dispVars, scrVars, next_state_after_scroll, last_data_update_ms,
                   last_mode_switch_ms, time_temp_mode, colon_blink_state,
                   api_mode_end_ms, ip_address, is_listening, last_manual_action_ms, ticks_zero>>

TickApiScroll ==
    /\ ~is_active
    /\ state = "API_SCROLL"
    /\ TickDone("tick_api_scroll")
    /\ state' = IF api_expired THEN "NORMAL_CYCLE" ELSE state
    /\ SetScr(IF api_expired THEN scroller_stop(Scr) ELSE Scr)
    /\ app_write_while_scrolling' = FALSE
    /\ UNCHANGED <<dispVars, next_state_after_scroll, last_data_update_ms,
                   last_mode_switch_ms, time_temp_mode, colon_blink_state,
                   api_mode_end_ms, ip_address, is_listening, last_manual_action_ms, ticks_zero>>

\* a manual-state tick that honours the recorded override expiry
TickManualExpires ==
    /\ ~is_active
    /\ state \in ManualStates
    /\ TickDone("tick_manual")
    /\ state' = IF api_expired THEN "NORMAL_CYCLE" ELSE state
    /\ app_write_while_scrolling' = FALSE
    /\ UNCHANGED <<dispVars, scrVars, next_state_after_scroll,
                   last_data_update_ms, last_mode_switch_ms, time_temp_mode,
                   colon_blink_state, api_mode_end_ms, ip_address, is_listening, last_manual_action_ms, ticks_zero>>

\* MANUAL_MODE and MANUAL_IP_SCROLL have no branch in _update_state_machine
TickManual ==
    /\ ~is_active
    /\ state \in ManualStates
    /\ TickDone("tick_manual")
    /\ app_write_while_scrolling' = FALSE
    /\ UNCHANGED <<dispVars, scrVars, state, next_state_after_scroll,
                   last_data_update_ms, last_mode_switch_ms, time_temp_mode,
                   colon_blink_state, api_mode_end_ms, ip_address, is_listening, last_manual_action_ms, ticks_zero>>

\* _update_state_machine(current_time_ms)
Tick ==
    \/ TickScrolling
    \/ TickStartup
    \/ TickAwaitScroll
    \/ \E ip \in IpAddresses, listen_ok \in BOOLEAN, w \in ConnectSeconds :
          TickConnecting(TRUE, ip, listen_ok, w)
    \/ TickConnecting(FALSE, NO_IP, FALSE, WIFI_MAX_WAIT)
    \/ \E tm \in ClockTimes, v \in AppTemps : TickNormalCycle(tm, v)
    \/ TickApiStatic
    \/ TickApiScroll
    \/ TickManual

----------------------------------------------------------------------------
(* RestApiServer.poll: the dispatch of one parsed request.  A parameter    *)
(* value is tagged with its Python type: StrVal from a query string or form,  *)
(* BoolVal and IntVal from a JSON body.                                         *)

StrVal(x) == [t |-> "str", v |-> x]
BoolVal(b) == [t |-> "bool", b |-> b]
IntVal(n) == [t |-> "int", n |-> n]

\* int(s) for the strings the model sends; any other string raises
IntStrings == ("0" :> 0) @@ ("1" :> 1) @@ ("2" :> 2) @@ ("5" :> 5)

\* s.strip().lower() for the strings the model sends
strip_lower(x) == CASE x = "TRUE" -> "true"
                    [] x = " on " -> "on"
                    [] OTHER -> x

\* _to_bool
to_bool(raw) ==
    CASE raw.t = "bool" -> raw.b
      [] raw.t = "int"  -> raw.n # 0
      [] raw.t = "str"  ->
           LET w == strip_lower(raw.v)
           IN  IF w \in {"1", "true", "yes", "on"} THEN TRUE
               ELSE IF w \in {"0", "false", "no", "off", ""} THEN FALSE
               ELSE raw.v # ""

\* a duration that is 0 when int() raises
coerce_duration_zero(opt) ==
    IF opt = None THEN 15
    ELSE CASE opt[1].t = "int"  -> opt[1].n
           [] opt[1].t = "bool" -> IF opt[1].b THEN 1 ELSE 0
           [] opt[1].t = "str"  ->
                IF opt[1].v \in DOMAIN IntStrings THEN IntStrings[opt[1].v] ELSE 0

\* duration_s = get_param('duration', 15); int(duration_s), 15 if that raises
coerce_duration(opt) ==
    IF opt = None THEN 15
    ELSE CASE opt[1].t = "int"  -> opt[1].n
           [] opt[1].t = "bool" -> IF opt[1].b THEN 1 ELSE 0
           [] opt[1].t = "str"  ->
                IF opt[1].v \in DOMAIN IntStrings THEN IntStrings[opt[1].v] ELSE 15

opt_bool(opt) == IF opt = None THEN None ELSE Some(to_bool(opt[1]))

\* JSON null, and the Python None a default can be
NullVal == [t |-> "null"]

\* str(x) of a parameter value (the text of /api/display and /api/scroll)
py_str(x) ==
    CASE x.t = "str"  -> x.v
      [] x.t = "int"  -> NatChars(x.n)
      [] x.t = "bool" -> IF x.b THEN <<"T","r","u","e">> ELSE <<"F","a","l","s","e">>
      [] x.t = "null" -> <<"N","o","n","e">>

\* chr(int(h, 16)) for the two-digit escapes the model sends; "" when int()
\* raises
hex_chr(h) ==
    CASE h = <<"4","1">> -> "A"
      [] h = <<"2","0">> -> " "
      [] h = <<"2","E">> -> "."
      [] OTHER -> ""

\* _url_decode, from position i (0-based)
RECURSIVE url_decode_from(_, _)
url_decode_from(s, i) ==
    IF i >= Len(s) THEN <<>>
    ELSE LET c == s[i + 1]
         IN  IF c = "+" THEN <<" ">> \o url_decode_from(s, i + 1)
             ELSE IF c = "%" /\ i + 2 < Len(s)
                  THEN IF hex_chr(SubSeq(s, i + 2, i + 3)) # ""
                       THEN <<hex_chr(SubSeq(s, i + 2, i + 3))>>
                               \o url_decode_from(s, i + 3)
                       ELSE <<c>> \o url_decode_from(s, i + 1)
                  ELSE <<c>> \o url_decode_from(s, i + 1)

url_decode(s) == url_decode_from(s, 0)

\* the pairs of a query string as a dict of str values; the flag and number
\* values the model sends hold no '+' and no '%', which _url_decode keeps
decode_pairs(q) ==
    [text     |-> IF q.text = None THEN None
                  ELSE Some(StrVal(url_decode(q.text[1]))),
     colon    |-> IF q.colon = None THEN None ELSE Some(StrVal(q.colon[1])),
     degree   |-> IF q.degree = None THEN None ELSE Some(StrVal(q.degree[1])),
     duration |-> IF q.duration = None THEN None ELSE Some(StrVal(q.duration[1])),
     loop     |-> IF q.loop = None THEN None ELSE Some(StrVal(q.loop[1]))]

\* _parse_request: the body is kept for POST only, cut at Content-Length (0
\* without the header); params come from the query string alone; json_payload
\* is ujson.loads(body), or None (NoBody) when there is no body or loads raises
parse_request(req) ==
    LET body == IF req.method = "POST" /\ req.has_length THEN req.body ELSE NoBody
    IN  [method |-> req.method,
         path   |-> req.path,
         params |-> decode_pairs(req.query),
         body   |-> body,
         json_payload |-> IF body.kind \in {"json_object", "json_number"}
                          THEN body ELSE NoBody]

\* bool(json_payload): an object with a member, a number other than 0
json_truthy(jp) ==
    CASE jp.kind = "json_object" -> \E k \in DOMAIN NoParams : jp.fields[k] # None
      [] jp.kind = "json_number" -> jp.n # 0
      [] OTHER -> FALSE

\* `name in json_payload` raises TypeError when the payload is a number
get_param_raises(p) == json_truthy(p.json_payload) /\ p.json_payload.kind = "json_number"

\* a get_param that asks the query string first
get_param_query_first(p, name, default) ==
    IF p.params[name] # None THEN p.params[name][1]
    ELSE IF json_truthy(p.json_payload) /\ p.json_payload.fields[name] # None
         THEN p.json_payload.fields[name][1]
         ELSE default

\* get_param(name, default), where it does not raise
get_param(p, name, default) ==
    IF json_truthy(p.json_payload) /\ p.json_payload.fields[name] # None
    THEN p.json_payload.fields[name][1]
    ELSE IF p.params[name] # None THEN p.params[name][1] ELSE default

\* a Python value as an optional argument: None is the omitted one
as_opt(x) == IF x.t = "null" THEN None ELSE Some(x)

\* _send_json(conn, status_code, payload): one more response on the connection
send_json(sent, status_code, ok, has_error) ==
    Append(sent, [status |-> status_code, ok |-> ok, error |-> has_error])

\* a poll whose except clause sends nothing
poll_replies_silent(raised) ==
    IF raised THEN <<>> ELSE send_json(<<>>, 200, TRUE, FALSE)

\* what poll sends on an accepted connection: the 200 of the branch taken, or
\* the 500 of the except clause when recv or the dispatch raised
poll_replies(raised) ==
    IF raised THEN send_json(<<>>, 500, FALSE, TRUE)
    ELSE send_json(<<>>, 200, TRUE, FALSE)

\* _enter_api_mode
enter_api_mode(duration_s) == ticks_add(now, duration_s * 1000)

\* api_show_text without its scroller.stop() (line 696 left out)
api_show_text_no_stop(s, d, text, colon, degree) ==
    [s |-> s, d |-> show_text(d, text, colon, degree),
     wrote_while_active |-> s.is_active]

\* api_show_text: the scroller and display it leaves
api_show_text(s, d, text, colon, degree) ==
    LET s1 == scroller_stop(s)
    IN  [s |-> s1, d |-> show_text(d, text, colon, degree),
         wrote_while_active |-> s1.is_active]

\* an exit that returns to the rotation from every state
exit_api_mode_always(st) == "NORMAL_CYCLE"

\* exit_api_mode: the state it leaves
exit_api_mode(st) == IF st \in ApiStates THEN "NORMAL_CYCLE" ELSE st

DisplayTexts == {<<"A","B","1","2">>}
ScrollTexts == {<<"H","E","L","L","O">>, <<"H","I">>}
DurationParams == {None, Some(StrVal("1"))}
ColonParams == {None, Some(StrVal("1"))}
DegreeParams == {None}
LoopParams == {None, Some(StrVal("TRUE"))}

PollDone(ev) ==
    /\ pc = "poll"
    /\ pc' = "refresh"
    /\ last_event' = ev
    /\ UNCHANGED <<last_data_update_ms, last_mode_switch_ms, time_temp_mode,
                   colon_blink_state, button_state, last_manual_action_ms,
                   manual_mode_index, next_state_after_scroll, ip_address,
                   is_listening, ticks_zero, scriptVars, n_presses, n_ops,
                   in_text, in_temp, n_advances, elapsed_ms, hwVars>>

\* the server is not listening, or accept() finds no pending connection
PollIdle ==
    /\ PollDone("no_request")
    /\ app_write_while_scrolling' = FALSE
    /\ request' = NoRequest
    /\ responses' = <<>>
    /\ conn' = "none"
    /\ UNCHANGED <<dispVars, scrVars, state, api_mode_end_ms, n_requests>>

\* accept() on a server that was never started
CanAcceptAlways ==
    inputs_used + RequestWeight <= MaxInputs

\* the server listens and accept() returns a connection
CanAccept ==
    /\ is_listening
    /\ inputs_used + RequestWeight <= MaxInputs

Accepted ==
    /\ CanAccept
    /\ n_requests' = n_requests + 1

\* /api/status and any path that is not an endpoint: a reply, no state change
PollStatus(path) ==
    /\ Accepted
    /\ PollDone(IF path = "/api/status" THEN "api_status" ELSE "api_other")
    /\ app_write_while_scrolling' = FALSE
    /\ UNCHANGED <<dispVars, scrVars, state, api_mode_end_ms>>

\* /api/clear that leaves the scroller running
PollClearNoStop ==
    /\ Accepted
    /\ PollDone("api_clear")
    /\ SetScr(Scr)
    /\ SetDisp(clear(Disp))
    /\ app_write_while_scrolling' = is_active
    /\ api_mode_end_ms' = ticks_zero
    /\ state' = exit_api_mode(state)

PollClear ==
    /\ Accepted
    /\ PollDone("api_clear")
    /\ LET s1 == scroller_stop(Scr)
       IN  /\ SetScr(s1)
           /\ SetDisp(clear(Disp))
           /\ app_write_while_scrolling' = s1.is_active
    /\ api_mode_end_ms' = ticks_zero
    /\ state' = exit_api_mode(state)

PollDisplay(text, colon, degree, duration) ==
    /\ Accepted
    /\ PollDone("api_display")
    /\ LET r == api_show_text(Scr, Disp, text, opt_bool(colon), opt_bool(degree))
       IN  /\ SetScr(r.s)
           /\ SetDisp(r.d)
           /\ app_write_while_scrolling' = r.wrote_while_active
    /\ api_mode_end_ms' = enter_api_mode(coerce_duration(duration))
    /\ state' = "API_STATIC"

PollScroll(text, lp, duration) ==
    /\ Accepted
    /\ PollDone("api_scroll")
    /\ LET r == scroller_start(Scr, Disp, text,
                               IF lp = None THEN FALSE ELSE to_bool(lp[1]), now)
       IN  SetScr(r.s) /\ SetDisp(r.d)
    /\ app_write_while_scrolling' = FALSE
    /\ api_mode_end_ms' = enter_api_mode(coerce_duration(duration))
    /\ state' = "API_SCROLL"

\* recv raised, or the dispatch did: the except clause answers, nothing else
\* has happened
PollError ==
    /\ Accepted
    /\ PollDone("api_error")
    /\ app_write_while_scrolling' = FALSE
    /\ UNCHANGED <<dispVars, scrVars, state, api_mode_end_ms>>

\* conn.recv raises, or get_param does in a branch that calls it
poll_raises(req) ==
    \/ ~req.recv_ok
    \/ /\ req.path \in {"/api/display", "/api/scroll"}
       /\ get_param_raises(parse_request(req))

\* one accepted connection: recv, _parse_request, the branch of the path, the
\* response, and conn.close() in the finally clause
PollRequest(req) ==
    /\ CanAccept
    /\ request' = req
    /\ responses' = poll_replies(poll_raises(req))
    /\ conn' = "closed"
    /\ \E p \in {parse_request(req)} :
          IF poll_raises(req) THEN PollError
          ELSE CASE p.path = "/api/status" -> PollStatus(p.path)
                 [] p.path = "/api/clear" -> PollClear
                 [] p.path = "/api/display" ->
                      \E text \in {py_str(get_param(p, "text", StrVal(<<>>)))},
                         colon \in {as_opt(get_param(p, "colon", NullVal))},
                         degree \in {as_opt(get_param(p, "degree", NullVal))},
                         duration_s \in {as_opt(get_param(p, "duration", IntVal(15)))} :
                         PollDisplay(text, colon, degree, duration_s)
                 [] p.path = "/api/scroll" ->
                      \E text \in {py_str(get_param(p, "text", StrVal(<<>>)))},
                         lp \in {as_opt(get_param(p, "loop", BoolVal(FALSE)))},
                         duration_s \in {as_opt(get_param(p, "duration", IntVal(15)))} :
                         PollScroll(text, lp, duration_s)
                 [] OTHER -> PollStatus(p.path)

\* a request that arrives whole, with a Content-Length for its body
Req(method, path, query, body) ==
    [recv_ok |-> TRUE, method |-> method, path |-> path, query |-> query,
     has_length |-> TRUE, body |-> body]

\* a parameter value as it stands in a query string
raw(opt) == IF opt = None THEN None ELSE Some(opt[1].v)

\* the requests ClockApp is sent under Spec: GET requests with a query string
AppRequests ==
    {Req("GET", path, NoParams, NoBody) : path \in {"/api/status", "/", "/api/clear"}}
    \cup
    {Req("GET", "/api/display",
         [NoParams EXCEPT !.text = Some(text), !.colon = raw(colon),
                          !.degree = raw(degree), !.duration = raw(duration)],
         NoBody) :
        text \in DisplayTexts, colon \in ColonParams, degree \in DegreeParams,
        duration \in DurationParams}
    \cup
    {Req("GET", "/api/scroll",
         [NoParams EXCEPT !.text = Some(text), !.loop = raw(lp),
                          !.duration = raw(duration)],
         NoBody) :
        text \in ScrollTexts, lp \in LoopParams, duration \in DurationParams}

\* api_server.poll()
Poll ==
    \/ PollIdle
    \/ \E req \in AppRequests : PollRequest(req)

InitApp == InitObjects /\ pc = "refresh" /\ in_text = <<>> /\ in_temp = 0

Next ==
    \/ \E dt \in TimeSteps : LoopTop(dt)
    \/ \E is_pressed \in BOOLEAN, still_pressed \in BOOLEAN :
          HandleButton(is_pressed, still_pressed)
    \/ Tick
    \/ Poll

Spec == InitApp /\ [][Next]_vars

----------------------------------------------------------------------------
(* ClockApp left alone: the button is never pressed and no request arrives. *)
(* run() loops forever, so every step of the loop is eventually taken.      *)

QuietSteps == {200, 1000}

NextQuiet ==
    \/ \E dt \in QuietSteps : LoopTop(dt)
    \/ HandleButton(FALSE, FALSE)
    \/ TickScrolling
    \/ TickStartup
    \/ TickAwaitScroll
    \/ \E ip \in IpAddresses, listen_ok \in BOOLEAN, w \in ConnectSeconds :
          TickConnecting(TRUE, ip, listen_ok, w)
    \/ TickConnecting(FALSE, NO_IP, FALSE, WIFI_MAX_WAIT)
    \/ \E tm \in ClockTimes, v \in AppTemps : TickNormalCycle(tm, v)
    \/ PollIdle

SpecQuiet == InitApp /\ [][NextQuiet]_vars /\ WF_vars(NextQuiet)

----------------------------------------------------------------------------
(* ClockApp with the button left alone and a client that sends requests of  *)
(* every shape: query strings with escapes, form-encoded and JSON bodies,   *)
(* bodies on GET, a body without Content-Length, a connection whose recv    *)
(* raises.                                                                  *)

QueryText == <<"Q","+","%","4","1">>
FormText == <<"A","B","1","2">>
JsonText == <<"J","S">>

ApiQueries ==
    {NoParams,
     [NoParams EXCEPT !.text = Some(QueryText)],
     [NoParams EXCEPT !.text = Some(QueryText), !.colon = Some("1"),
                      !.duration = Some("1")],
     [NoParams EXCEPT !.text = Some(HelloText), !.loop = Some("TRUE")]}

ApiBodies ==
    {NoBody,
     FormBody([NoParams EXCEPT !.text = Some(FormText), !.duration = Some("5")]),
     JsonObject(NoParams),
     JsonObject([NoParams EXCEPT !.text = Some(StrVal(JsonText))]),
     JsonObject([NoParams EXCEPT !.text = Some(IntVal(12)),
                                 !.colon = Some(BoolVal(FALSE)),
                                 !.degree = Some(BoolVal(TRUE)),
                                 !.duration = Some(IntVal(2))]),
     JsonObject([NoParams EXCEPT !.colon = Some(NullVal)]),
     JsonNumber(5)}

ApiRequests ==
    {Req("POST", path, query, body) :
        path \in {"/api/display", "/api/scroll"}, query \in ApiQueries,
        body \in ApiBodies}
    \cup
    {Req("GET", path, query, body) :
        path \in {"/api/display", "/api/scroll"}, query \in ApiQueries,
        body \in {NoBody, JsonObject([NoParams EXCEPT !.text = Some(StrVal(JsonText))])}}
    \cup
    {Req(method, path, NoParams, body) :
        method \in {"GET", "POST"}, path \in {"/api/status", "/api/clear", "/"},
        body \in {NoBody, JsonNumber(5)}}
    \cup
    {Req("GET", path, [NoParams EXCEPT !.text = Some(QueryText),
                                       !.duration = Some(duration)], NoBody) :
        path \in {"/api/display", "/api/scroll"}, duration \in {"x", "0"}}
    \cup
    {[Req("POST", "/api/display", NoParams,
          JsonObject([NoParams EXCEPT !.text = Some(StrVal(JsonText))]))
        EXCEPT !.has_length = FALSE],
     NoRequest}

NextApi ==
    \/ \E dt \in TimeSteps : LoopTop(dt)
    \/ HandleButton(FALSE, FALSE)
    \/ TickScrolling
    \/ TickStartup
    \/ TickAwaitScroll
    \/ \E ip \in IpAddresses, listen_ok \in BOOLEAN, w \in ConnectSeconds :
          TickConnecting(TRUE, ip, listen_ok, w)
    \/ \E tm \in ClockTimes, v \in AppTemps : TickNormalCycle(tm, v)
    \/ TickApiStatic
    \/ TickApiScroll
    \/ PollIdle
    \/ \E req \in ApiRequests : PollRequest(req)

SpecApi == InitApp /\ [][NextApi]_vars

----------------------------------------------------------------------------
(* The script variant (main_mem32_simple.py).  Its display buffer and       *)
(* scroll message are lists of tokens: a token is a character, or a         *)
(* character with its period appended, held as a sequence of one or two     *)
(* one-character strings.                                                   *)

\* list(s) for a string s: one token per character
Tokens(s) == [i \in 1..Len(s) |-> <<s[i]>>]

\* format_ip_for_scrolling's while loop from position i (0-based)
RECURSIVE format_ip_loop(_, _)
format_ip_loop(ip_str, i) ==
    IF i < Len(ip_str)
    THEN IF i + 1 < Len(ip_str) /\ ip_str[i + 2] = "."
         THEN <<<<ip_str[i + 1], ".">>>> \o format_ip_loop(ip_str, i + 2)
         ELSE <<<<ip_str[i + 1]>>>> \o format_ip_loop(ip_str, i + 1)
    ELSE <<>>

format_ip_for_scrolling(ip_str) ==
    IF ip_str = NO_IP THEN Tokens(Spaces(3) \o NO_IP \o Spaces(3))
    ELSE Tokens(Spaces(3)) \o format_ip_loop(ip_str, 0) \o Tokens(Spaces(3))

\* the four tokens of the time (lines 116 and 126)
script_time_buf(tm) ==
    <<NatChars(tm[1] \div 10), NatChars(tm[1] % 10),
      NatChars(tm[2] \div 10), NatChars(tm[2] % 10)>>

\* the four tokens of the temperature v/100 (lines 119-120 and 129-130)
script_temp_buf(v) ==
    LET u == (Abs(v) \div 100) % 10
        d == (Abs(v) \div 10) % 10
    IN  <<IF Abs(v) >= 1000 THEN NatChars(Abs(v) \div 1000)
          ELSE IF v < 0 THEN <<"-">> ELSE <<" ">>,
          NatChars(u) \o <<".">>, NatChars(d), <<"C">>>>

ScriptSteps == {500, 1000}

script_next_manual_idx(st, idx) ==
    IF st \in ManualStates THEN (idx + 1) % 3 ELSE 0

\* lines 67-91: the multiplex pass over disp_buf (which changes nothing
\* here), the reading of the clock dt ms after the last one, and the button;
\* cur_btn and still are the two samples of rp2.bootsel_button()
ScriptButton(dt, cur_btn, still) ==
    /\ pc = "script_button"
    /\ pc' = "script_state"
    /\ ticks_zero' = shift(ticks_zero, dt, EXPIRY_BACK)
    /\ last_scroll_ms' = shift(last_scroll_ms, dt, SCROLL_BACK)
    /\ last_data_ms' = shift(last_data_ms, dt, DATA_BACK)
    /\ last_mode_sw_ms' = shift(last_mode_sw_ms, dt, MODE_BACK)
    /\ LET honored == cur_btn /\ ~btn_state /\ still
           idx     == script_next_manual_idx(script_state, manual_idx)
       IN  IF honored
           THEN /\ inputs_used + 1 <= MaxInputs
                /\ n_presses' = n_presses + 1
                /\ last_manual_ms' = now
                /\ manual_idx' = idx
                /\ script_state' = IF script_state \in ManualStates /\ idx = 2
                                   THEN "MANUAL_IP_SCROLL" ELSE "MANUAL_MODE"
                /\ scroll_msg' = IF script_state \in ManualStates /\ idx = 2
                                 THEN format_ip_for_scrolling(script_ip)
                                 ELSE scroll_msg
                /\ scroll_idx' = IF script_state \in ManualStates /\ idx = 2
                                 THEN 0 ELSE scroll_idx
                /\ last_event' = "script_press"
           ELSE /\ last_manual_ms' = shift(last_manual_ms, dt, MANUAL_BACK)
                /\ UNCHANGED <<n_presses, manual_idx, script_state, scroll_msg,
                               scroll_idx>>
                /\ last_event' = IF cur_btn /\ ~btn_state THEN "script_bounce"
                                 ELSE "script_no_press"
    /\ btn_state' = cur_btn
    /\ UNCHANGED <<dispVars, scrVars, appVars, disp_buf, wlan, script_ip,
                   script_colon, script_degree, tt_mode, n_requests, n_ops,
                   in_text, in_temp, app_write_while_scrolling, n_advances, elapsed_ms,
                   hwVars, reqVars>>

ScriptDone(ev) ==
    /\ pc = "script_state"
    /\ pc' = "script_button"
    /\ last_event' = ev
    /\ UNCHANGED <<dispVars, scrVars, appVars, btn_state, manual_idx,
                   n_presses, n_requests, n_ops, in_text, in_temp,
                   app_write_while_scrolling, n_advances, elapsed_ms, hwVars, reqVars>>

\* lines 93-97 (next = CONNECTING_WIFI) and 103-107 (next = NORMAL_CYCLE)
ScriptScrollOnce(next) ==
    /\ script_colon' = FALSE
    /\ script_degree' = FALSE
    /\ IF ticks_diff(now, last_scroll_ms) > SCROLL_DELAY_MS
       THEN /\ last_scroll_ms' = now
            /\ disp_buf' = Slice(scroll_msg, scroll_idx, scroll_idx + 4)
            /\ scroll_idx' = scroll_idx + 1
            /\ script_state' = IF scroll_idx + 1 > Len(scroll_msg) - 4
                               THEN next ELSE script_state
       ELSE UNCHANGED <<last_scroll_ms, disp_buf, scroll_idx, script_state>>
    /\ UNCHANGED <<wlan, script_ip, scroll_msg, last_data_ms, tt_mode,
                   last_mode_sw_ms, last_manual_ms, ticks_zero>>

ScriptStartupScroll ==
    /\ script_state = "STARTUP_SCROLL"
    /\ ScriptDone("script_startup")
    /\ ScriptScrollOnce("CONNECTING_WIFI")

\* lines 98-102: connected is what connect_to_wifi returned, ip the address,
\* wait_s the seconds it slept
ScriptConnecting(connected, ip, wait_s) ==
    /\ script_state = "CONNECTING_WIFI"
    /\ ScriptDone(IF connected THEN "script_connected" ELSE "script_wifi_failed")
    /\ disp_buf' = Tokens(<<"C","O","N","N">>)
    /\ wlan' = connected
    /\ script_ip' = IF connected THEN ip ELSE script_ip
    /\ scroll_msg' = IF connected THEN format_ip_for_scrolling(ip)
                     ELSE Tokens(Spaces(3) \o WIFI_FAIL_MESSAGE \o Spaces(3))
    /\ scroll_idx' = 0
    /\ script_state' = IF connected THEN "SHOWING_IP" ELSE "WIFI_FAIL"
    /\ ticks_zero' = shift(ticks_zero, wait_s * 1000, EXPIRY_BACK)
    /\ last_scroll_ms' = shift(last_scroll_ms, wait_s * 1000, SCROLL_BACK)
    /\ last_data_ms' = shift(last_data_ms, wait_s * 1000, DATA_BACK)
    /\ last_mode_sw_ms' = shift(last_mode_sw_ms, wait_s * 1000, MODE_BACK)
    /\ last_manual_ms' = shift(last_manual_ms, wait_s * 1000, MANUAL_BACK)
    /\ UNCHANGED <<script_colon, script_degree, tt_mode>>

ScriptShowing ==
    /\ script_state \in {"SHOWING_IP", "WIFI_FAIL"}
    /\ ScriptDone("script_showing")
    /\ ScriptScrollOnce("NORMAL_CYCLE")

\* lines 108-120
ScriptNormalCycle(tm, v) ==
    /\ script_state = "NORMAL_CYCLE"
    /\ ScriptDone("script_normal")
    /\ LET dur    == IF tt_mode = "time" THEN 10 ELSE 5
           switch == ticks_diff(now, last_mode_sw_ms) > dur * 1000
           mode   == IF switch THEN (IF tt_mode = "time" THEN "temp" ELSE "time")
                     ELSE tt_mode
           render == ticks_diff(now, last_data_ms) >= 1000
       IN  /\ last_mode_sw_ms' = IF switch THEN now ELSE last_mode_sw_ms
           /\ tt_mode' = mode
           /\ last_data_ms' = IF render THEN now ELSE last_data_ms
           /\ script_colon' = IF ~render THEN script_colon
                              ELSE IF mode = "time" THEN ~script_colon ELSE FALSE
           /\ script_degree' = IF ~render THEN script_degree ELSE mode # "time"
           /\ disp_buf' = IF ~render THEN disp_buf
                          ELSE IF mode = "time" THEN script_time_buf(tm)
                          ELSE script_temp_buf(v)
    /\ UNCHANGED <<script_state, wlan, script_ip, scroll_msg, scroll_idx,
                   last_scroll_ms, last_manual_ms, ticks_zero>>

\* an inactivity test that is already met at the timeout itself
script_timed_out_early ==
    ticks_diff(now, last_manual_ms) >= MANUAL_MODE_TIMEOUT_S * 1000

\* the inactivity test of lines 122 and 133
script_timed_out ==
    ticks_diff(now, last_manual_ms) > MANUAL_MODE_TIMEOUT_S * 1000

\* lines 121-130
ScriptManualMode(tm, v) ==
    /\ script_state = "MANUAL_MODE"
    /\ ScriptDone("script_manual")
    /\ IF script_timed_out
       THEN /\ script_state' = "NORMAL_CYCLE"
            /\ UNCHANGED <<script_colon, script_degree, disp_buf>>
       ELSE /\ UNCHANGED script_state
            /\ script_colon' = IF manual_idx = 0 THEN TRUE
                               ELSE IF manual_idx = 1 THEN FALSE ELSE script_colon
            /\ script_degree' = IF manual_idx = 0 THEN FALSE
                                ELSE IF manual_idx = 1 THEN TRUE ELSE script_degree
            /\ disp_buf' = IF manual_idx = 0 THEN script_time_buf(tm)
                           ELSE IF manual_idx = 1 THEN script_temp_buf(v)
                           ELSE disp_buf
    /\ UNCHANGED <<wlan, script_ip, scroll_msg, scroll_idx, last_scroll_ms,
                   last_data_ms, tt_mode, last_mode_sw_ms, last_manual_ms,
                   ticks_zero>>

\* lines 131-137
ScriptManualIpScroll ==
    /\ script_state = "MANUAL_IP_SCROLL"
    /\ ScriptDone("script_ip_scroll")
    /\ script_colon' = FALSE
    /\ script_degree' = FALSE
    /\ IF script_timed_out
       THEN /\ script_state' = "NORMAL_CYCLE"
            /\ UNCHANGED <<last_scroll_ms, disp_buf, scroll_idx>>
       ELSE /\ UNCHANGED script_state
            /\ IF ticks_diff(now, last_scroll_ms) > SCROLL_DELAY_MS
               THEN /\ last_scroll_ms' = now
                    /\ disp_buf' = Slice(scroll_msg, scroll_idx, scroll_idx + 4)
                    /\ scroll_idx' = IF scroll_idx + 1 > Len(scroll_msg) - 4
                                     THEN 0 ELSE scroll_idx + 1
               ELSE UNCHANGED <<last_scroll_ms, disp_buf, scroll_idx>>
    /\ UNCHANGED <<wlan, script_ip, scroll_msg, last_data_ms, tt_mode,
                   last_mode_sw_ms, last_manual_ms, ticks_zero>>

InitScript == InitObjects /\ pc = "script_button" /\ in_text = <<>> /\ in_temp = 0

NextScript ==
    \/ \E dt \in ScriptSteps, cur_btn \in BOOLEAN, still \in BOOLEAN :
          ScriptButton(dt, cur_btn, still)
    \/ ScriptStartupScroll
    \/ \E ip \in IpAddresses, w \in ConnectSeconds : ScriptConnecting(TRUE, ip, w)
    \/ ScriptConnecting(FALSE, NO_IP, WIFI_MAX_WAIT)
    \/ ScriptShowing
    \/ \E tm \in ClockTimes, v \in AppTemps : ScriptNormalCycle(tm, v)
    \/ \E tm \in ClockTimes, v \in AppTemps : ScriptManualMode(tm, v)
    \/ ScriptManualIpScroll

SpecScript == InitScript /\ [][NextScript]_vars

\* ClockApp or the script, whichever was started
SpecBoth == (InitApp \/ InitScript) /\ [][Next \/ NextScript]_vars

----------------------------------------------------------------------------
(* Properties of SevenSegmentDisplay and Scroller, checked under SpecDriver *)

\* C9: after every write, no slot of the buffer holds the period character
\* itself: each period of the text became the decimal-point flag of the slot
\* before it.
C9_PeriodNeverTakesSlot ==
    \A i \in 1..4 : display_data[i][1] # "."

\* C10: the buffer always holds exactly 4 well-formed slots; the slots of the
\* last written text are filled from the left (slot i holds the text's first
\* character when i = 1, and otherwise a character at position i or later),
\* every slot beyond the input is (' ', false), and refresh maps every slot,
\* known character or not, to a set of segment lines.
C10_FourSlots ==
    /\ Len(display_data) = 4
    /\ \A i \in 1..4 :
          /\ Len(display_data[i]) = 2
          /\ display_data[i][2] \in BOOLEAN
          /\ i > Len(last_text) => display_data[i] = BlankSlot
          /\ \/ display_data[i] = BlankSlot
             \/ \E p \in i..Len(last_text) :
                   display_data[i][1] = upper(last_text[p])
          /\ refresh_segments(display_data[i]) \subseteq Segments
          /\ display_data[i][1] \notin DOMAIN BASE_SEGMENT_MAP
                => refresh_segments(display_data[i]) = {}
    /\ Len(last_text) >= 1 => display_data[1][1] = upper(last_text[1])

\* a text longer than the display was written and left a character the
\* segment table does not know in the buffer
C10_Witness ==
    /\ last_event = "show_text"
    /\ Len(last_text) > 4
    /\ \E i \in 1..4 : display_data[i][1] \notin DOMAIN BASE_SEGMENT_MAP
    /\ display_data[4] # BlankSlot

----------------------------------------------------------------------------
(* Properties of ClockApp, checked under Spec and SpecQuiet                 *)

\* C1: a state-machine tick taken in API_SCROLL at or past the recorded
\* expiry stops the Scroller and sets the state to NORMAL_CYCLE, also when the
\* scroll (looping or not) is still in flight.
C1_ScrollOverrideExpires ==
    [][(pc = "tick" /\ state = "API_SCROLL" /\ api_mode_end_ms <= now)
          => (state' = "NORMAL_CYCLE" /\ ~is_active')]_vars

\* C2: handling /api/display with duration d leaves the state API_STATIC, the
\* Scroller inactive and the expiry d seconds ahead; a tick in API_STATIC
\* finds the Scroller inactive, keeps the state while the expiry is still
\* ahead and sets NORMAL_CYCLE once the expiry is now or past.
C2_StaticOverride ==
    [][/\ (pc = "poll" /\ last_event' = "api_display")
             => /\ state' = "API_STATIC"
                /\ ~is_active'
                /\ \E duration \in DurationParams :
                      api_mode_end_ms' = now + coerce_duration(duration) * 1000
       /\ (pc = "tick" /\ state = "API_STATIC")
             => /\ ~is_active
                /\ api_mode_end_ms > now => state' = "API_STATIC"
                /\ api_mode_end_ms <= now => state' = "NORMAL_CYCLE"]_vars

\* a tick has just ended a static override whose text is still in the buffer
C2_Witness ==
    /\ last_event = "tick_api_static"
    /\ state = "NORMAL_CYCLE"
    /\ api_mode_end_ms = now
    /\ display_data[1] = <<"A", FALSE>>

\* C3: a tick taken in MANUAL_MODE or MANUAL_IP_SCROLL more than
\* MANUAL_MODE_TIMEOUT_S after the last honored press leaves the Scroller
\* inactive and the state NORMAL_CYCLE.
C3_ManualTimeout ==
    [][(/\ pc = "tick"
        /\ state \in ManualStates
        /\ ticks_diff(now, last_manual_action_ms) > MANUAL_MODE_TIMEOUT_S * 1000)
          => (state' = "NORMAL_CYCLE" /\ ~is_active')]_vars

\* C4: once the tick that follows a press has run, MANUAL_IP_SCROLL has the
\* Scroller active and looping over the padded address.
C4_ManualIpScrollStarts ==
    (pc = "poll" /\ state = "MANUAL_IP_SCROLL")
       => /\ is_active
          /\ loop
          /\ message = Spaces(3) \o format_ip_for_display(ip_address) \o Spaces(3)

\* C5: in ClockApp and in the script alike, an honored press from a
\* non-manual state sets MANUAL_MODE with index 0 and an honored press from a
\* manual state sets the index to (index + 1) mod 3; always the index is in
\* 0..2, MANUAL_IP_SCROLL has index 2 and MANUAL_MODE has index 0 or 1.
C5_ManualIndex ==
    /\ [](/\ manual_mode_index \in 0..2
          /\ state = "MANUAL_IP_SCROLL" => manual_mode_index = 2
          /\ state = "MANUAL_MODE" => manual_mode_index \in {0, 1}
          /\ manual_idx \in 0..2
          /\ script_state = "MANUAL_IP_SCROLL" => manual_idx = 2
          /\ script_state = "MANUAL_MODE" => manual_idx \in {0, 1})
    /\ [][/\ (pc = "button" /\ last_event' = "press")
                => IF state \in ManualStates
                   THEN /\ manual_mode_index' = (manual_mode_index + 1) % 3
                        /\ state' \in ManualStates
                   ELSE /\ manual_mode_index' = 0
                        /\ state' = "MANUAL_MODE"
          /\ (pc = "script_button" /\ last_event' = "script_press")
                => IF script_state \in ManualStates
                   THEN /\ manual_idx' = (manual_idx + 1) % 3
                        /\ script_state' \in ManualStates
                   ELSE /\ manual_idx' = 0
                        /\ script_state' = "MANUAL_MODE"]_vars

\* ClockApp's fourth press in a row has just wrapped the index from 2 to 0
C5_Witness ==
    /\ last_event = "press"
    /\ n_presses = 4
    /\ state = "MANUAL_MODE"
    /\ manual_mode_index = 0

\* the place of the state in the startup sequence, 0 outside it
startup_phase ==
    CASE state = "STARTUP" -> 1
      [] state = "AWAIT_SCROLL" /\ next_state_after_scroll = "CONNECTING_WIFI" -> 2
      [] state = "CONNECTING_WIFI" -> 3
      [] state = "AWAIT_SCROLL" /\ next_state_after_scroll = "NORMAL_CYCLE" -> 4
      [] state = "NORMAL_CYCLE" -> 5
      [] OTHER -> 0

\* C6: left alone, the state is always one of the startup sequence, moves
\* only to the next place of STARTUP, AWAIT_SCROLL, CONNECTING_WIFI,
\* AWAIT_SCROLL, NORMAL_CYCLE, leaves an AWAIT_SCROLL only when the Scroller
\* is inactive, and eventually is NORMAL_CYCLE.
C6_StartupOrder ==
    /\ [](startup_phase # 0)
    /\ [][/\ startup_phase' \in {startup_phase, startup_phase + 1}
          /\ (state = "AWAIT_SCROLL" /\ state' # state) => ~is_active]_vars
    /\ <>(state = "NORMAL_CYCLE")

\* the rotation was reached after the failure message had scrolled out
C6_Witness ==
    /\ state = "NORMAL_CYCLE"
    /\ ip_address = NO_IP
    /\ message = Spaces(3) \o WIFI_FAIL_MESSAGE \o Spaces(3)
    /\ ~is_active
    /\ last_event = "tick_normal"

\* what ClockApp keeps besides the display and the Scroller
appState ==
    <<state, next_state_after_scroll, last_data_update_ms, last_mode_switch_ms,
      time_temp_mode, colon_blink_state, api_mode_end_ms, button_state,
      last_manual_action_ms, manual_mode_index, ip_address, is_listening>>

\* C7: no step writes the buffer from outside the Scroller while the Scroller
\* is active, and a tick that begins with the Scroller active changes nothing
\* of the application's state.
C7_ScrollerOwnsBuffer ==
    /\ [](~app_write_while_scrolling)
    /\ [][(pc = "tick" /\ is_active) => UNCHANGED appState]_vars

\* a /api/display request arrived while a scroll was in flight
C7_Witness ==
    /\ last_event = "api_display"
    /\ index > 0
    /\ index <= Len(message) - 4
    /\ ~is_active

\* C8 as stated: after /api/clear, whatever the state was, the Scroller is
\* inactive, the buffer blank, both indicators off, the expiry cleared and
\* the state NORMAL_CYCLE.
C8_ClearAlwaysNormalCycle ==
    last_event = "api_clear"
       => /\ ~is_active
          /\ display_data = BlankData
          /\ ~colon_on
          /\ ~degree_on
          /\ api_mode_end_ms = ticks_zero
          /\ state = "NORMAL_CYCLE"

\* C8 amended: after /api/clear the Scroller is inactive, the buffer blank,
\* both indicators off and the expiry cleared; the state is NORMAL_CYCLE if it
\* was API_STATIC or API_SCROLL and is otherwise what it was.
C8_ClearEndsOverride ==
    [][(pc = "poll" /\ last_event' = "api_clear")
          => /\ ~is_active'
             /\ display_data' = BlankData
             /\ ~colon_on'
             /\ ~degree_on'
             /\ api_mode_end_ms' = ticks_zero'
             /\ state' = IF state \in ApiStates THEN "NORMAL_CYCLE" ELSE state]_vars

\* /api/clear was handled in a manual state and left it in place
C8_Witness ==
    /\ last_event = "api_clear"
    /\ state \in ManualStates
    /\ display_data = BlankData

----------------------------------------------------------------------------
(* Properties of Scroller, checked under SpecScroll and SpecDriver *)

\* C12: Scroller.start on a text of at most 4 characters shows that text
\* (slots beyond it blank, a text without periods character by character),
\* leaves the indicators alone and leaves the Scroller inactive, whether or
\* not a scroll was running; an update of an inactive Scroller changes
\* neither buffer nor Scroller and reports inactive.
C12_ShortStartIsStatic ==
    [][/\ (last_event' = "start" /\ Len(in_text) <= 4)
             => /\ ~is_active'
                /\ last_text' = in_text
                /\ \A i \in 1..4 :
                      /\ i > Len(in_text) => display_data'[i] = BlankSlot
                      /\ (i <= Len(in_text) /\ \A j \in 1..Len(in_text) : in_text[j] # ".")
                            => display_data'[i] = <<upper(in_text[i]), FALSE>>
                /\ UNCHANGED <<colon_on, degree_on>>
       /\ (last_event' = "update" /\ ~is_active)
             => /\ ~is_active'
                /\ UNCHANGED <<display_data, colon_on, degree_on, last_text,
                               message, index, loop, n_advances>>]_vars

\* a short text was started while the HELLO scroll was one frame in
C12_Witness ==
    /\ last_event = "start"
    /\ Len(in_text) \in 1..4
    /\ n_ops = 3
    /\ message = Spaces(3) \o HelloText \o Spaces(3)
    /\ index = 1
    /\ ~is_active
    /\ display_data[1][1] = in_text[1]

\* C13: Scroller.start on a text of n > 4 characters makes the message the
\* text with 3 blanks on each side (n + 6 characters) and the cursor 0;
\* without loop the cursor counts the frames, an update ends the scroll
\* exactly with frame n + 3 and never earlier; with loop the cursor is the
\* frame count modulo n + 3 and no update ends the scroll.
C13_ScrollLength ==
    /\ [](is_active =>
             /\ Len(message) >= 11
             /\ ~loop => (index = n_advances /\ n_advances < Len(message) - 3)
             /\ loop => index = n_advances % (Len(message) - 3))
    /\ [][/\ (last_event' = "start" /\ Len(in_text) > 4)
                => /\ message' = Spaces(3) \o in_text \o Spaces(3)
                   /\ Len(message') = Len(in_text) + 6
                   /\ index' = 0
                   /\ is_active'
          /\ (last_event' = "start_hello")
                => /\ message' = <<" "," "," ","H","E","L","L","O"," "," "," ">>
                   /\ is_active'
          /\ (last_event' = "update" /\ is_active /\ ~is_active')
                => (~loop /\ n_advances' = Len(message) - 3)
          /\ (last_event' = "update" /\ is_active /\ ~loop
                 /\ n_advances' = Len(message) - 3) => ~is_active'
          /\ (last_event' = "update" /\ is_active /\ loop) => is_active']_vars

\* a looping scroll of the text has just wrapped after its n + 3 frames
C13_Witness ==
    /\ last_event = "update"
    /\ Len(in_text) > 4
    /\ message = Spaces(3) \o in_text \o Spaces(3)
    /\ loop
    /\ is_active
    /\ index = 0
    /\ n_advances = Len(in_text) + 3

\* C14: while the Scroller is active its cursor is between 0 and
\* len(message) - 4, so the window at the cursor has exactly 4 characters.
C14_CursorInRange ==
    is_active =>
       /\ 0 <= index
       /\ index <= Len(message) - 4
       /\ Len(Slice(message, index, index + 4)) = 4

\* an active scroll stands at its last window
C14_Witness ==
    /\ is_active
    /\ last_event = "update"
    /\ index = Len(message) - 4
    /\ n_advances = index

\* C15 as stated: an update of an active Scroller renders the window at the
\* cursor and advances when at least the scroll interval has elapsed since
\* the last advance, and changes nothing when less has elapsed.
C15_AdvanceAtInterval ==
    [][(last_event' = "update" /\ is_active)
          => IF elapsed_ms' >= SCROLL_DELAY_MS
             THEN /\ last_text' = Slice(message, index, index + 4)
                  /\ index' \in {index + 1, 0}
                  /\ index' = 0 => (loop /\ index = Len(message) - 4)
                  /\ last_scroll_time_ms' = now
             ELSE /\ UNCHANGED <<index, display_data, colon_on, degree_on,
                                 last_text, is_active>>
                  /\ last_scroll_time_ms' = -elapsed_ms']_vars

\* C15 amended: the update renders and advances when more than the scroll
\* interval has elapsed, and changes nothing when the interval or less has.
C15_AdvancePastInterval ==
    [][(last_event' = "update" /\ is_active)
          => IF elapsed_ms' > SCROLL_DELAY_MS
             THEN /\ last_text' = Slice(message, index, index + 4)
                  /\ index' \in {index + 1, 0}
                  /\ index' = 0 => (loop /\ index = Len(message) - 4)
                  /\ last_scroll_time_ms' = now
             ELSE /\ UNCHANGED <<index, display_data, colon_on, degree_on,
                                 last_text, is_active>>
                  /\ last_scroll_time_ms' = -elapsed_ms']_vars

\* an update exactly one interval after the start left the scroll where it was
C15_Witness ==
    /\ last_event = "update"
    /\ elapsed_ms = SCROLL_DELAY_MS
    /\ is_active
    /\ index = 0
    /\ n_advances = 0
    /\ last_text = <<>>

\* C16: a frame rendered by Scroller.update leaves colon and degree off, an
\* update that renders nothing leaves them as they were, and Scroller.start
\* and stop never turn one on.
C16_ScrollerNeverLightsIndicators ==
    [][/\ (last_event' = "update" /\ index' # index)
             => (~colon_on' /\ ~degree_on')
       /\ (last_event' = "update" /\ index' = index)
             => UNCHANGED <<colon_on, degree_on>>
       /\ (last_event' \in {"start", "start_hello", "stop"})
             => /\ colon_on' => colon_on
                /\ degree_on' => degree_on]_vars

\* the first frame of a scroll was rendered as the third operation
C16_Witness ==
    /\ last_event = "update"
    /\ n_ops = 3
    /\ Len(in_text) > 4
    /\ is_active
    /\ index = 1
    /\ ~colon_on
    /\ ~degree_on

----------------------------------------------------------------------------
(* Properties of SevenSegmentDisplay.refresh, checked under SpecRefresh *)

\* C20: at every point of refresh at most one digit-enable line is high; a
\* write to a segment or decimal-point line happens only while all four
\* digit-enable lines are low; the digit raised is the one of the slot in
\* progress, each slot has its digit high when its dwell begins, and the
\* slots follow each other as 0, 1, 2, 3; a write to a colon or degree line
\* happens only in slot 0, and when slot 0 dwells those lines show the
\* persisted flags.
C20_RefreshSequencing ==
    /\ [](Cardinality(gpio \cap ALL_ANODES_MASK) <= 1)
    /\ [](pc = "refreshing" => refresh_i \in 0..3)
    /\ [][/\ (last_event' = "mem32"
                 /\ last_write'[2] \cap (ALL_SEGMENTS_MASK \cup DP_MASK) # {})
                => /\ gpio \cap ALL_ANODES_MASK = {}
                   /\ gpio' \cap ALL_ANODES_MASK = {}
          /\ (last_event' = "mem32" /\ gpio' \cap ALL_ANODES_MASK # {})
                => gpio' \cap ALL_ANODES_MASK = ANODE_MASKS[refresh_i + 1]
          /\ (last_event' = "refresh_begin") => refresh_i' = 0
          /\ (last_event' = "sleep_us")
                => /\ gpio \cap ALL_ANODES_MASK = ANODE_MASKS[refresh_i + 1]
                   /\ IF refresh_i < 3 THEN refresh_i' = refresh_i + 1
                      ELSE pc' = "driver"
          /\ (last_event' = "mem32"
                 /\ last_write'[2] \cap (COLON_ANODE_MASK \cup COLON_CATHODE_MASK
                                          \cup DEG_ANODE_MASK \cup DEG_CATHODE_MASK) # {})
                => refresh_i = 0
          /\ (last_event' = "sleep_us" /\ refresh_i = 0)
                => /\ colon_on => (COLON_ANODE_MASK \subseteq gpio
                                   /\ COLON_CATHODE_MASK \cap gpio = {})
                   /\ ~colon_on => COLON_ANODE_MASK \cap gpio = {}
                   /\ degree_on => (DEG_ANODE_MASK \subseteq gpio
                                    /\ DEG_CATHODE_MASK \cap gpio = {})
                   /\ ~degree_on => DEG_ANODE_MASK \cap gpio = {}]_vars

\* the second slot of a temperature is lit, decimal point and degree sign on
C20_Witness ==
    /\ pc = "refreshing"
    /\ refresh_i = 1
    /\ last_event = "mem32"
    /\ gpio \cap ALL_ANODES_MASK = ANODE_MASKS[2]
    /\ DP_MASK \cap gpio = {}
    /\ DEG_ANODE_MASK \subseteq gpio
    /\ DEG_CATHODE_MASK \cap gpio = {}
    /\ degree_on

\* ---------------------------------------------------------------------------
\* Properties of RestApiServer.poll, checked under SpecApi
\* ---------------------------------------------------------------------------

\* C17: a poll accepts at most one connection; when it accepts none (nothing
\* pending, or the server not listening) it sends nothing and changes nothing;
\* for an accepted connection it sends exactly one response and has closed the
\* connection when it returns: 200 with ok true when the dispatch succeeds,
\* 500 with ok false and an error message when recv raises or the dispatch
\* does (a JSON body that is a number, on /api/display and /api/scroll), and
\* then the displayed state is as it was.
C17_OneResponseThenClose ==
    [][pc = "poll" =>
          LET failed ==
                  \/ ~request'.recv_ok
                  \/ /\ request'.method = "POST"
                     /\ request'.has_length
                     /\ request'.body.kind = "json_number"
                     /\ request'.path \in {"/api/display", "/api/scroll"}
          IN  /\ conn' \in {"none", "closed"}
              /\ n_requests' \in {n_requests, n_requests + 1}
              /\ ~is_listening => conn' = "none"
              /\ conn' = "none"
                    => /\ responses' = <<>>
                       /\ n_requests' = n_requests
                       /\ UNCHANGED <<dispVars, scrVars, state, api_mode_end_ms>>
              /\ conn' = "closed"
                    => /\ n_requests' = n_requests + 1
                       /\ Len(responses') = 1
                       /\ ~failed => responses'[1] =
                             [status |-> 200, ok |-> TRUE, error |-> FALSE]
                       /\ failed
                             => /\ responses'[1] =
                                      [status |-> 500, ok |-> FALSE, error |-> TRUE]
                                /\ UNCHANGED <<dispVars, scrVars, state,
                                               api_mode_end_ms>>]_vars

\* a POST to /api/display whose JSON body is a number was answered with 500
C17_Witness ==
    /\ last_event = "api_error"
    /\ request.recv_ok
    /\ request.path = "/api/display"
    /\ request.body.kind = "json_number"
    /\ responses = <<[status |-> 500, ok |-> FALSE, error |-> TRUE]>>
    /\ conn = "closed"

\* C18 as stated: the parameters of a form-encoded POST body are decoded and
\* used by /api/display and /api/scroll: the text shown is the body's text and
\* the override lasts the body's duration.
C18_FormBodyParams ==
    [][(/\ pc = "poll"
        /\ conn' = "closed"
        /\ request'.recv_ok
        /\ request'.method = "POST"
        /\ request'.has_length
        /\ request'.body.kind = "form"
        /\ request'.path \in {"/api/display", "/api/scroll"})
          => /\ request'.body.fields.text # None
                   => last_text' = url_decode(request'.body.fields.text[1])
             /\ request'.body.fields.duration # None
                   => api_mode_end_ms' =
                         ticks_add(now, IntStrings[request'.body.fields.duration[1]] * 1000)]_vars

\* C19: for a POST whose body is a JSON object and which has a query string
\* as well, /api/display and /api/scroll take every field the object has
\* from the object, and every field it lacks from the query string, or the
\* endpoint's default (text '', flags omitted, loop false, duration 15) when
\* the query string lacks it too.
C19_JsonOverQuery ==
    [][(/\ pc = "poll"
        /\ conn' = "closed"
        /\ request'.recv_ok
        /\ request'.method = "POST"
        /\ request'.has_length
        /\ request'.body.kind = "json_object"
        /\ request'.path \in {"/api/display", "/api/scroll"})
          => LET jf == request'.body.fields
                 qf == request'.query
                 text == IF jf.text # None THEN py_str(jf.text[1])
                         ELSE IF qf.text # None THEN url_decode(qf.text[1])
                         ELSE <<>>
                 seconds == IF jf.duration # None THEN jf.duration[1].n
                            ELSE IF qf.duration # None
                                 THEN IntStrings[qf.duration[1]]
                                 ELSE 15
                 flag(name) == IF jf[name] # None
                               THEN (IF jf[name][1].t = "null" THEN None
                                     ELSE Some(jf[name][1].b))
                               ELSE IF qf[name] # None
                                    THEN Some(to_bool(StrVal(qf[name][1])))
                                    ELSE None
             IN  /\ api_mode_end_ms' = ticks_add(now, seconds * 1000)
                 /\ request'.path = "/api/display"
                       => /\ last_text' = text
                          /\ colon_on' = IF flag("colon") = None THEN colon_on
                                         ELSE flag("colon")[1]
                          /\ degree_on' = IF flag("degree") = None THEN degree_on
                                          ELSE flag("degree")[1]
                 /\ request'.path = "/api/scroll"
                       => IF Len(text) <= 4
                          THEN last_text' = text /\ ~is_active'
                          ELSE /\ message' = Spaces(3) \o text \o Spaces(3)
                               /\ is_active'
                               /\ loop' = IF flag("loop") = None THEN FALSE
                                          ELSE flag("loop")[1]]_vars

\* a POST to /api/display took its text from the JSON body and its colon and
\* duration from the query string
C19_Witness ==
    /\ last_event = "api_display"
    /\ request.method = "POST"
    /\ request.has_length
    /\ request.body.kind = "json_object"
    /\ request.body.fields.text = Some(StrVal(JsonText))
    /\ request.body.fields.colon = None
    /\ request.query.text = Some(QueryText)
    /\ request.query.colon = Some("1")
    /\ last_text = JsonText
    /\ colon_on
    /\ api_mode_end_ms = 1000

\* C11: /api/display, which shows its text through show_text, replaces the
\* colon flag only when the request supplies colon and the degree flag only
\* when it supplies degree (a JSON null is an omitted argument); an omitted
\* flag keeps the value the application last gave it, so a request without
\* colon and degree leaves both indicators as they were; and the step writes
\* no GPIO register: the register changes in refresh() alone.
C11_OmittedFlagsKept ==
    [][/\ (pc = "poll" /\ last_event' = "api_display")
             => LET jf == IF /\ request'.method = "POST"
                             /\ request'.has_length
                             /\ request'.body.kind = "json_object"
                          THEN request'.body.fields ELSE NoParams
                    qf == request'.query
                    omitted(name) == IF jf[name] # None
                                     THEN jf[name][1].t = "null"
                                     ELSE qf[name] = None
                    value(name) == IF jf[name] # None THEN jf[name][1].b
                                   ELSE to_bool(StrVal(qf[name][1]))
                IN  /\ colon_on' = IF omitted("colon") THEN colon_on
                                   ELSE value("colon")
                    /\ degree_on' = IF omitted("degree") THEN degree_on
                                    ELSE value("degree")
                    /\ (qf.colon = None /\ qf.degree = None
                           /\ jf.colon = None /\ jf.degree = None)
                          => UNCHANGED <<colon_on, degree_on>>
                    /\ UNCHANGED <<gpio, last_write>>
       /\ (gpio' # gpio \/ last_write' # last_write) => pc = "refresh"]_vars

\* a /api/display request without colon and degree arrived while the
\* temperature was shown, and the degree indicator is still on
C11_Witness ==
    /\ last_event = "api_display"
    /\ state = "API_STATIC"
    /\ request.query.colon = None
    /\ request.query.degree = None
    /\ request.body.fields.colon = None
    /\ request.body.fields.degree = None
    /\ degree_on
    /\ ~colon_on

\* ---------------------------------------------------------------------------
\* More properties of SevenSegmentDisplay, checked under SpecRefresh and
\* SpecDriver
\* ---------------------------------------------------------------------------

\* C21: no step of refresh() changes the buffer, the colon flag or the degree
\* flag, and a refresh pass that ends with the buffer as the pass before it
\* found it has issued exactly the register writes of that pass, in the same
\* order.
C21_RefreshIdempotent ==
    [][/\ (pc = "refreshing" \/ pc' = "refreshing")
             => UNCHANGED <<display_data, colon_on, degree_on>>
       /\ (pc = "refreshing" /\ pc' = "driver" /\ n_passes >= 1)
             => /\ pass_writes = prev_writes
                /\ prev_writes' = prev_writes
                /\ Len(pass_writes) >= 4 * 4]_vars

\* a second pass over a temperature has ended
C21_Witness ==
    /\ pc = "driver"
    /\ last_event = "sleep_us"
    /\ n_passes = 2
    /\ degree_on
    /\ display_data[2][2]
    /\ Len(prev_writes) > 4 * 4
    /\ pass_writes = <<>>

\* C22 as stated: show_temperature of a temperature from 10 up to 100 degrees
\* (whose rounding to one decimal place is below 100) fills the four slots
\* with the tens digit, the units digit with its decimal point, the tenths
\* digit of the rounded value and 'C', with degree on and colon off.
C22_TemperatureOneDecimal ==
    [][(last_event' = "show_temperature" /\ in_temp \in 1000..9994)
          => LET tenths == (in_temp + 5) \div 10
             IN  /\ display_data' =
                       << <<DigitChar[(tenths \div 100) + 1], FALSE>>,
                          <<DigitChar[((tenths \div 10) % 10) + 1], TRUE>>,
                          <<DigitChar[(tenths % 10) + 1], FALSE>>,
                          <<"C", FALSE>> >>
                 /\ degree_on'
                 /\ ~colon_on']_vars

\* ---------------------------------------------------------------------------
\* More properties of ClockApp, checked under SpecQuiet, SpecPress and Spec
\* ---------------------------------------------------------------------------

\* C23: a tick in NORMAL_CYCLE toggles the rotation mode only when more than
\* 10 s (showing time) or 5 s (showing temperature) have passed since the
\* rotation timer was set, and then sets that timer; it renders the content
\* of the mode it ends in exactly when at least 1 s has passed since the last
\* render, and then sets the render timer; a render without a toggle leaves
\* the rotation timer alone and a toggle without a render leaves the render
\* timer and the buffer alone.
C23_RotationAndRenderTimers ==
    [][(pc = "tick" /\ state = "NORMAL_CYCLE" /\ ~is_active)
          => LET since_toggle == now - last_mode_switch_ms
                 since_render == now - last_data_update_ms
                 period  == IF time_temp_mode = "time" THEN 10 * 1000 ELSE 5 * 1000
                 toggled == time_temp_mode' # time_temp_mode
             IN  /\ state' = "NORMAL_CYCLE"
                 /\ toggled <=> since_toggle > period
                 /\ last_mode_switch_ms' = IF toggled THEN now ELSE last_mode_switch_ms
                 /\ last_data_update_ms' =
                       IF since_render >= 1000 THEN now ELSE last_data_update_ms
                 /\ since_render < 1000
                       => UNCHANGED <<display_data, colon_on, degree_on, last_text,
                                      colon_blink_state>>
                 /\ (since_render >= 1000 /\ time_temp_mode' = "time")
                       => /\ \E tm \in ClockTimes :
                                last_text' = Fmt02d(tm[1]) \o Fmt02d(tm[2])
                          /\ colon_blink_state' = ~colon_blink_state
                          /\ colon_on' = colon_blink_state'
                          /\ ~degree_on'
                 /\ (since_render >= 1000 /\ time_temp_mode' = "temp")
                       => /\ \E v \in AppTemps : last_text' = temp_str(v)
                          /\ degree_on'
                          /\ ~colon_on']_vars

\* a tick has toggled the rotation from time to temperature less than 1 s
\* after the last render, which still shows the time
C23_Witness ==
    /\ last_event = "tick_normal"
    /\ state = "NORMAL_CYCLE"
    /\ time_temp_mode = "temp"
    /\ last_mode_switch_ms = now
    /\ last_data_update_ms < now
    /\ last_data_update_ms > now - 1000
    /\ ~degree_on
    /\ Len(last_text) = 4

\* C24: in ClockApp and in the script alike, the button step makes a manual
\* transition only when the button reads pressed, the sample of the pass
\* before was not pressed, and the button still reads pressed after the
\* settle delay (the step is then a "press"); a step that finds the previous
\* sample pressed (a held button) makes none, and a press released during
\* the settle delay (a "bounce") makes none; the sample is recorded in every
\* case.
C24_DebouncedEdge ==
    [][/\ pc = "button"
             => LET made == n_presses' = n_presses + 1
                IN  /\ made <=> last_event' = "press"
                    /\ made => (button_state' /\ ~button_state
                                   /\ state' \in ManualStates
                                   /\ last_manual_action_ms' = now)
                    /\ ~made => UNCHANGED <<state, manual_mode_index,
                                            last_manual_action_ms, scrVars,
                                            n_presses>>
                    /\ button_state => ~made
                    /\ last_event' = "bounce"
                          => (button_state' /\ ~button_state /\ ~made)
                    /\ UNCHANGED dispVars
       /\ pc = "script_button"
             => LET made == n_presses' = n_presses + 1
                IN  /\ made <=> last_event' = "script_press"
                    /\ made => (btn_state' /\ ~btn_state
                                   /\ script_state' \in ManualStates
                                   /\ last_manual_ms' = now)
                    /\ ~made => UNCHANGED <<script_state, manual_idx, scroll_msg,
                                            scroll_idx, n_presses>>
                    /\ btn_state => ~made
                    /\ last_event' = "script_bounce"
                          => (btn_state' /\ ~btn_state /\ ~made)]_vars

\* after one honored press and a release, a press was released during the
\* settle delay and changed nothing
C24_Witness ==
    /\ last_event = "bounce"
    /\ button_state
    /\ n_presses = 1
    /\ state = "MANUAL_MODE"
    /\ manual_mode_index = 0
    /\ last_manual_action_ms < now

\* ---------------------------------------------------------------------------
\* More properties of Scroller, checked under SpecScroll
\* ---------------------------------------------------------------------------

\* C25: Scroller.stop leaves the Scroller inactive and changes neither the
\* buffer, the indicator flags, the message nor the cursor; an update of an
\* inactive Scroller leaves it inactive and writes nothing, whatever time has
\* passed; only a start makes the Scroller active again.
C25_StopKeepsFrame ==
    [][/\ last_event' = "stop"
             => /\ ~is_active'
                /\ UNCHANGED <<display_data, colon_on, degree_on, last_text,
                               message, index, loop>>
       /\ (last_event' = "update" /\ ~is_active)
             => /\ ~is_active'
                /\ UNCHANGED <<display_data, colon_on, degree_on, last_text,
                               message, index, loop, n_advances>>
       /\ (~is_active /\ is_active')
             => last_event' \in {"start", "start_hello"}]_vars

\* a scroll was stopped after its second frame; an update more than one
\* interval later has left that frame and the cursor in place
C25_Witness ==
    /\ last_event = "update"
    /\ ~is_active
    /\ elapsed_ms > SCROLL_DELAY_MS
    /\ Len(message) > 4 + 6
    /\ index = 2
    /\ n_advances = 2
    /\ last_text = Slice(message, 1, 1 + 4)

\* C26: /api/display and /api/scroll answer 200 and record an expiry of the
\* request time plus the duration in seconds, where the duration is the
\* integer the duration parameter holds (a JSON number, or a query value that
\* is a decimal integer), and 15 when the parameter is absent or is no
\* integer.
C26_DurationDefault ==
    [][(/\ pc = "poll"
        /\ conn' = "closed"
        /\ request'.recv_ok
        /\ request'.path \in {"/api/display", "/api/scroll"}
        /\ ~(request'.method = "POST" /\ request'.has_length
                /\ request'.body.kind = "json_number"))
          => LET jf == IF /\ request'.method = "POST"
                          /\ request'.has_length
                          /\ request'.body.kind = "json_object"
                       THEN request'.body.fields ELSE NoParams
                 qf == request'.query
                 seconds ==
                     IF jf.duration # None
                     THEN (IF jf.duration[1].t = "int" THEN jf.duration[1].n ELSE 15)
                     ELSE IF qf.duration = None THEN 15
                     ELSE CASE qf.duration[1] = "0" -> 0
                            [] qf.duration[1] = "1" -> 1
                            [] qf.duration[1] = "2" -> 2
                            [] qf.duration[1] = "5" -> 5
                            [] OTHER -> 15
             IN  /\ api_mode_end_ms' = now + seconds * 1000
                 /\ responses' = <<[status |-> 200, ok |-> TRUE, error |-> FALSE]>>
                 /\ state' = IF request'.path = "/api/display" THEN "API_STATIC"
                             ELSE "API_SCROLL"]_vars

\* a /api/scroll request whose duration is no number was answered 200 and
\* runs for 15 s
C26_Witness ==
    /\ last_event = "api_scroll"
    /\ request.query.duration = Some("x")
    /\ responses = <<[status |-> 200, ok |-> TRUE, error |-> FALSE]>>
    /\ api_mode_end_ms = now + 15 * 1000
    /\ state = "API_SCROLL"

\* ---------------------------------------------------------------------------
\* Properties of the script variant, checked under SpecScript
\* ---------------------------------------------------------------------------

\* C27: in the script, the state step taken in MANUAL_MODE or
\* MANUAL_IP_SCROLL sets NORMAL_CYCLE when more than MANUAL_MODE_TIMEOUT_S
\* have passed since the last honored press and keeps the state otherwise;
\* an honored press sets the time of the last press to now and keeps the
\* state manual; in MANUAL_IP_SCROLL the cursor stays inside the message,
\* advances by one and wraps to 0 once it has passed len(message) - 4.
C27_ScriptManualTimeout ==
    /\ [](script_state = "MANUAL_IP_SCROLL"
             => (0 <= scroll_idx /\ scroll_idx <= Len(scroll_msg) - 4))
    /\ [][/\ (pc = "script_state" /\ script_state \in ManualStates)
                => /\ script_state' =
                         IF now - last_manual_ms > MANUAL_MODE_TIMEOUT_S * 1000
                         THEN "NORMAL_CYCLE" ELSE script_state
                   /\ UNCHANGED last_manual_ms
                   /\ scroll_idx' # scroll_idx
                         => /\ script_state' = "MANUAL_IP_SCROLL"
                            /\ scroll_idx' = IF scroll_idx = Len(scroll_msg) - 4
                                             THEN 0 ELSE scroll_idx + 1
          /\ (pc = "script_button" /\ last_event' = "script_press")
                => /\ last_manual_ms' = now
                   /\ script_state' \in ManualStates
          /\ (pc = "script_button" /\ last_event' # "script_press")
                => UNCHANGED script_state]_vars

\* the address has scrolled through once and the cursor is back at 0, the
\* last window still in the buffer
C27_Witness ==
    /\ last_event = "script_ip_scroll"
    /\ script_state = "MANUAL_IP_SCROLL"
    /\ scroll_idx = 0
    /\ last_scroll_ms = now
    /\ disp_buf = Slice(scroll_msg, Len(scroll_msg) - 4, Len(scroll_msg))
    /\ last_manual_ms < now


----------------------------------------------------------------------------
(* Properties of ClockApp under every interleaving of ticks, presses and   *)
(* requests, checked under Spec.                                            *)

\* C28: in every reachable state of ClockApp, state = NORMAL_CYCLE implies
\* that the Scroller is inactive.
C28_NormalCycleNotScrolling ==
    state = "NORMAL_CYCLE" => ~is_active

\* NORMAL_CYCLE entered by /api/clear cutting a scroll short
C28_Witness ==
    /\ state = "NORMAL_CYCLE"
    /\ last_event = "api_clear"
    /\ ~is_active
    /\ index > 0
    /\ index + 4 < Len(message)

\* C29: an honored press during API_STATIC or API_SCROLL sets MANUAL_MODE
\* with index 0 in the same step and keeps the recorded expiry; afterwards
\* no tick in a manual state changes the state, whether or not the expiry
\* has passed, and a tick outside the API states never writes the expiry.
C29_PressPreemptsOverride ==
    [][ /\ (pc = "button" /\ last_event' = "press" /\ state \in ApiStates)
            => /\ state' = "MANUAL_MODE"
               /\ manual_mode_index' = 0
        /\ (pc = "tick" /\ state \in ManualStates) => state' = state
        /\ (pc = "tick" /\ state \notin ApiStates)
            => (state' = "NORMAL_CYCLE" => state \in {"AWAIT_SCROLL", "NORMAL_CYCLE"})
      ]_vars

\* a manual state entered by a press before the expiry of an override,
\* ticked at the instant of the expiry
C29_Witness ==
    /\ state = "MANUAL_MODE"
    /\ manual_mode_index = 0
    /\ last_event = "tick_manual"
    /\ n_presses = 1
    /\ last_manual_action_ms < now
    /\ api_mode_end_ms = now
    /\ api_mode_end_ms # ticks_zero

\* C30: state is always one of the eight state names, and in AWAIT_SCROLL
\* the pending next state is CONNECTING_WIFI or NORMAL_CYCLE.
C30_StateDomain ==
    /\ state \in {"STARTUP", "AWAIT_SCROLL", "CONNECTING_WIFI", "NORMAL_CYCLE",
                  "MANUAL_MODE", "MANUAL_IP_SCROLL", "API_STATIC", "API_SCROLL"}
    /\ state = "AWAIT_SCROLL"
        => next_state_after_scroll \in {"CONNECTING_WIFI", "NORMAL_CYCLE"}

\* the second wait, for the address or "NO IP" scroll
C30_Witness ==
    /\ state = "AWAIT_SCROLL"
    /\ next_state_after_scroll = "NORMAL_CYCLE"
    /\ is_active
    /\ index > 0


\* C31: while the control server is not listening no request is handled:
\* poll changes nothing, the state is never API_STATIC or API_SCROLL, and
\* listening begins only in a CONNECTING_WIFI tick whose connection
\* succeeded; once the bootstrap is over without a listening server, the
\* server never listens.
C31_NoRequestBeforeBootstrap ==
    /\ [](~is_listening => state \notin ApiStates /\ n_requests = 0)
    /\ [][ /\ (pc = "poll" /\ ~is_listening)
               => /\ last_event' = "no_request"
                  /\ UNCHANGED <<dispVars, scrVars, state, api_mode_end_ms, n_requests>>
           /\ (~is_listening /\ is_listening')
               => /\ pc = "tick"
                  /\ state = "CONNECTING_WIFI"
                  /\ ip_address' # NO_IP
           /\ (~is_listening /\ state \notin {"STARTUP", "AWAIT_SCROLL", "CONNECTING_WIFI"})
               => ~is_listening'
           /\ (~is_listening /\ next_state_after_scroll = "NORMAL_CYCLE")
               => ~is_listening'
         ]_vars

\* a poll after the connection failed: the clock runs without the server
C31_Witness ==
    /\ ~is_listening
    /\ ip_address = NO_IP
    /\ state = "NORMAL_CYCLE"
    /\ last_event = "no_request"
    /\ pc = "refresh"


\* C32: time spent outside NORMAL_CYCLE does not count toward the rotation
\* timer: at every step that enters NORMAL_CYCLE the time counted toward
\* the next toggle is zero, so the mode held at entry lasts its full period
\* from the entry.
C32_RotationTimerRestartsOnEntry ==
    [][ (state # "NORMAL_CYCLE" /\ state' = "NORMAL_CYCLE")
            => ticks_diff(now, last_mode_switch_ms') <= 0 ]_vars

====
